---- MODULE Spec2Model ----
(***************************************************************************)
(* Chunked video upload to S3: the multipart upload coordinator            *)
(* (backend/utils/s3ChunkedVideoUploader.js), the ChunkedVideo session     *)
(* store (backend/models/chunkedVideo.js), the cancel route                *)
(* (backend/routes/chunkedUpload.js) and the cleanup of stale uploads.     *)
(*                                                                         *)
(* Every await of the code is a suspension point: an action of the model   *)
(* is the code that runs between two awaits.  The object store and the     *)
(* database answer each call with success or with an error.                *)
(***************************************************************************)
EXTENDS Integers, Sequences, FiniteSets, TLC

(***************************************************************************)
(* Bounds of the model.                                                    *)
(***************************************************************************)
MaxUploads == 1        \* invocations of uploadVideoInChunks in one run
MaxSize == 4           \* largest file.size / file.buffer.length (bytes)
MaxSmallSize == 1      \* the same, while cancels and cleanups run too
MaxChunkSize == 2      \* largest CHUNKED_UPLOAD_CONFIG.CHUNK_SIZE (bytes)
MaxSmallChunk == 1     \* the same, while cancels and cleanups run too
MaxClock == 50         \* Date.now() stops advancing here (hours)
ClockStep == 25        \* granularity of Date.now() (hours)
MaxDuration == 1       \* largest duration extractVideoMetadata reports
MaxLen == 4            \* longest buffer of the partition specification
MaxByte == 1           \* largest byte value of the partition specification
MaxStored == 2         \* sessions in the store when the cleanups start
MaxOffset == 2         \* byte offsets 0..MaxOffset, and as many past 2 MiB
MaxParts == 3            \* chunks of a file sent to POST /upload

(***************************************************************************)
(* Program constants.                                                      *)
(***************************************************************************)
\* a retry limit that is one too low
OneRetryLess == 3 - 1

MAX_RETRIES == 3       \* CHUNKED_UPLOAD_CONFIG.MAX_RETRIES
RETRY_DELAY_BASE == 1000
concurrencyLimit == 3  \* uploadVideoInChunks: const concurrencyLimit = 3
StaleHours == 24       \* 24 * 60 * 60 * 1000 ms

NULL == 0              \* null / undefined of an id, key or url
NoDate == -1           \* null of a Date
NoReturn == -1         \* cleanupOldUploads has not returned yet

VideoIds == 1..MaxUploads
Min(a, b) == IF a <= b THEN a ELSE b
Max(a, b) == IF a >= b THEN a ELSE b

RECURSIVE Pow2(_)
Pow2(n) == IF n <= 0 THEN 1 ELSE 2 * Pow2(n - 1)

(***************************************************************************)
(* Partition of the buffer (uploadVideoInChunks, lines 53-72).             *)
(***************************************************************************)
\* Math.floor in place of Math.ceil
totalChunksFloor(size, c) == size \div c

\* Math.ceil(fileBuffer.length / chunkSize)
totalChunks(size, c) == (size + c - 1) \div c

\* const start = j * chunkSize   (j is 0-based, the part number is j + 1)
chunkStart(j, c) == j * c

\* const end = Math.min(start + chunkSize, fileBuffer.length)
chunkEnd(j, c, size) == Min(chunkStart(j, c) + c, size)

\* fileBuffer.slice(start, end): bytes start .. end-1 (0-based), as a sequence
slice(buf, start, end) ==
    LET s == Min(Max(start, 0), Len(buf))
        e == Min(Max(end, 0), Len(buf))
    IN  IF e <= s THEN << >> ELSE [i \in 1..(e - s) |-> buf[s + i]]

\* the chunk handed to uploadPart for 0-based index j
chunkOf(buf, j, c) == slice(buf, chunkStart(j, c), chunkEnd(j, c, Len(buf)))

(***************************************************************************)
(* State.                                                                  *)
(***************************************************************************)
VARIABLES
    now,            \* Date.now(), in hours
    chunkSize,      \* CHUNKED_UPLOAD_CONFIG.CHUNK_SIZE of this deployment
    sessions,       \* the ChunkedVideo collection: videoId -> document
    mpu,            \* object store: uploadId -> state of the multipart upload
    aborts,         \* AbortMultipartUpload calls issued so far
    pc,             \* the await uploadVideoInChunks is suspended at
    cur,            \* number of the running invocation (its videoId)
    fileSize,       \* file.size = file.buffer.length
    uploadId,       \* let uploadId
    key,            \* let key
    chunkedVideo,   \* const chunkedVideo: the in-memory document
    batchI,         \* loop variable i of the batch loop
    parts,          \* const parts = []
    part,           \* the uploadPart calls: part number -> promise state
    completeCalls,  \* manifests sent with CompleteMultipartUpload
    error,          \* the error caught by the catch block
    result,         \* what the caller of uploadVideoInChunks receives
    failures,       \* the calls of this invocation, other than UploadPart,
                    \* that the object store or the database failed
    cancelPc,       \* the await the DELETE /:videoId handler is suspended at
    cancelDoc,      \* const chunkedVideo of the cancel handler (findOne)
    cancelResp,     \* the last response of the cancel route
    sweepPc,        \* the await cleanupIncompleteUploads is suspended at
    sweepAt,        \* Date.now() as cleanupIncompleteUploads read it (line 208)
    sweepQueue,     \* incompleteUploads still to be visited (head = current)
    oldPc,          \* the await cleanupOldUploads is suspended at
    oldAt,          \* Date.now() as cleanupOldUploads read it (line 187)
    oldUploads,     \* const oldUploads of cleanupOldUploads
    oldRet,         \* what the last call of cleanupOldUploads returned
    streamPc,       \* the await a GET /stream or GET /direct handler is at
    streamReq,      \* the streaming request: route, id and Range header
    streamObj,      \* ContentLength of the S3 object GET /direct serves
    streamGot,      \* bytes of the GetObject answer still to be written
    streamResp,     \* the response of the streaming request so far
    entryPc,        \* the await POST /upload or uploadFileToS3 is at
    entryFile,      \* req.file of the route, file of uploadFileToS3
    entryVia,       \* the entry point the file came through
    entryPuts,      \* PutObject calls sent so far
    entryResp,      \* the response of the route, the outcome of the call
    metaPc,         \* the stage extractVideoMetadata has reached
    metaIn,         \* videoBuffer and fileInfo of extractVideoMetadata
    metaOut,        \* its metadata so far, and at the end what it returns
    buf,            \* partition: the buffer
    chunks          \* partition: the chunks cut so far

coordVars == <<pc, cur, fileSize, uploadId, key, chunkedVideo, batchI, parts,
               part, completeCalls, error, result, failures>>
cancelVars == <<cancelPc, cancelDoc, cancelResp>>
oldVars == <<oldPc, oldAt, oldUploads, oldRet>>
sweepVars == <<sweepPc, sweepAt, sweepQueue, oldVars>>
storeVars == <<sessions, mpu, aborts>>
partitionVars == <<buf, chunks>>
streamVars == <<streamPc, streamReq, streamObj, streamGot, streamResp>>
entryVars == <<entryPc, entryFile, entryVia, entryPuts, entryResp>>
metaVars == <<metaPc, metaIn, metaOut>>
otherVars == <<partitionVars, streamVars, entryVars, metaVars>>
vars == <<now, chunkSize, sessions, mpu, aborts, pc, cur, fileSize, uploadId,
          key, chunkedVideo, batchI, parts, part, completeCalls, error, result,
          failures, cancelPc, cancelDoc, cancelResp, sweepPc, sweepAt, sweepQueue,
          oldPc, oldAt, oldUploads, oldRet, streamPc, streamReq, streamObj, streamGot,
          streamResp, entryPc, entryFile, entryVia, entryPuts, entryResp,
          metaPc, metaIn, metaOut, buf, chunks>>

(***************************************************************************)
(* Values.                                                                 *)
(***************************************************************************)
\* new ChunkedVideo({...}): the schema defaults fill the other fields
newChunkedVideo(vid, k, uid, size, t) ==
    [videoId |-> vid, s3Key |-> k, uploadId |-> uid, totalSize |-> size,
     isComplete |-> FALSE, finalVideoUrl |-> NULL, createdAt |-> t,
     completedAt |-> NoDate, duration |-> 0]

NoDoc == newChunkedVideo(NULL, NULL, NULL, 0, NoDate)

\* schema validation run by save(): the required paths
validates(doc) ==
    /\ doc.videoId # NULL
    /\ doc.s3Key # NULL
    /\ doc.uploadId # NULL

\* getPublicUrl(key): an url that is a function of the key
getPublicUrl(k) == k

\* the url is left out of the update
markCompleteNoUrl(doc, url, t) ==
    [doc EXCEPT !.isComplete = TRUE, !.completedAt = t]

\* lines 97-99: the fields set on the document after completion
markComplete(doc, url, t) ==
    [doc EXCEPT !.isComplete = TRUE, !.finalVideoUrl = url, !.completedAt = t]

\* generateUniqueFilename: a fresh key for every invocation
generateUniqueFilename(n) == n

\* the ETag the object store returns for the attempt-th UploadPart of a part
ETagOf(pn, attempt) == pn * 10 + attempt

NoPart == [st |-> "none", retries |-> 0, etag |-> NULL, delay |-> 0]

\* uploadPart resolves with { ETag: result.ETag, PartNumber: partNumber }
PartResult(p, pn) == [ETag |-> p[pn].etag, PartNumber |-> pn]

\* a batch of one part more than the limit
batchOfWide(i, total) == (i + 1)..Min(i + concurrencyLimit + 1, total)

\* the part numbers of the batch that starts at 0-based index i
batchOf(i, total) == (i + 1)..Min(i + concurrencyLimit, total)

\* lines 66-72: every part of the batch gets its first UploadPart request
dispatchBatch(p, i, total) ==
    [pn \in DOMAIN p |->
        IF pn \in batchOf(i, total)
        THEN [NoPart EXCEPT !.st = "inflight"]
        ELSE p[pn]]

\* a comparator that sorts descending: (a, b) => b.PartNumber - a.PartNumber
RECURSIVE sortPartsDescending(_)
sortPartsDescending(s) ==
    IF s = << >> THEN << >>
    ELSE LET m == CHOOSE i \in 1..Len(s) :
                    \A k \in 1..Len(s) :
                       \/ s[i].PartNumber > s[k].PartNumber
                       \/ (s[i].PartNumber = s[k].PartNumber /\ i <= k)
             rest == [k \in 1..(Len(s) - 1) |-> IF k < m THEN s[k] ELSE s[k + 1]]
         IN  <<s[m]>> \o sortPartsDescending(rest)

\* parts.sort((a, b) => a.PartNumber - b.PartNumber)
RECURSIVE sortParts(_)
sortParts(s) ==
    IF s = << >> THEN << >>
    ELSE LET m == CHOOSE i \in 1..Len(s) :
                    \A k \in 1..Len(s) :
                       \/ s[i].PartNumber < s[k].PartNumber
                       \/ (s[i].PartNumber = s[k].PartNumber /\ i <= k)
             rest == [k \in 1..(Len(s) - 1) |-> IF k < m THEN s[k] ELSE s[k + 1]]
         IN  <<s[m]>> \o sortParts(rest)

\* a delay that does not grow
retryDelayFixed(retries) == RETRY_DELAY_BASE

\* RETRY_DELAY_BASE * Math.pow(2, retries - 1)
retryDelay(retries) == RETRY_DELAY_BASE * Pow2(retries - 1)

\* the abort is never sent
shouldAbortNever(uid, k) == FALSE

\* if (uploadId && key)
shouldAbort(uid, k) == uid # NULL /\ k # NULL

AbortCall(who, uid, k) == [by |-> who, uploadId |-> uid, key |-> k]

NoResult == [type |-> "none", cause |-> "", duration |-> 0, videoId |-> NULL]

\* the error of the abort replaces the error of the upload
rethrownAbort(err, abortError) == IF abortError # "" THEN abortError ELSE err

\* throw new Error(`S3 multipart upload failed: ${error.message}`)
\* abortError is only logged
rethrown(err, abortError) == err

Failure(cause) ==
    [type |-> "error", cause |-> cause, duration |-> 0, videoId |-> NULL]

\* the object returned on success (lines 117-127)
Success(vid, d) ==
    [type |-> "ok", cause |-> "", duration |-> d, videoId |-> vid]

Put(store, doc) ==
    [v \in DOMAIN store \cup {doc.videoId} |->
        IF v = doc.videoId THEN doc ELSE store[v]]

Remove(store, vid) == [v \in DOMAIN store \ {vid} |-> store[v]]

settled(p) == \A pn \in DOMAIN p : p[pn].st \notin {"inflight", "waiting"}

(***************************************************************************)
(* Initial state: nothing uploaded yet, an empty collection.               *)
(***************************************************************************)
(***************************************************************************)
(* Values of the streaming routes (routes/chunkedUpload.js, lines 284-438  *)
(* and 541-683).                                                           *)
(***************************************************************************)
maxRangeSize == 2 * 1024 * 1024

\* the number NaN, and undefined
NaN == 0 - Pow2(30)
Undefined == NaN - 1

\* arithmetic of numbers that may be NaN
jsAdd(a, b) == IF a = NaN \/ b = NaN THEN NaN ELSE a + b
jsSub(a, b) == IF a = NaN \/ b = NaN THEN NaN ELSE a - b
jsMin(a, b) == IF a = NaN \/ b = NaN THEN NaN ELSE Min(a, b)

\* a property of a document: undefined when the schema has no such path
get(doc, path) == IF path \in DOMAIN doc THEN doc[path] ELSE Undefined

\* characters of a Range header: the digits 0..9 are themselves
Dash == 10             \* "-"
Letter == 11           \* a letter
Space == 13            \* " ", a white space character
Plus == 14             \* "+"
BytesEq == 12          \* the substring "bytes="
isDigit(ch) == ch \in 0..9

\* the decimal digits of n >= 0
RECURSIVE Digits(_)
Digits(n) == IF n < 10 THEN <<n>> ELSE Append(Digits(n \div 10), n % 10)

\* range.replace(/bytes=/, ""): the first "bytes=" is taken out
RECURSIVE replaceBytesEq(_)
replaceBytesEq(text) ==
    IF text = << >> THEN << >>
    ELSE IF Head(text) = BytesEq THEN Tail(text)
    ELSE <<Head(text)>> \o replaceBytesEq(Tail(text))

\* text.split("-")
RECURSIVE split(_)
split(text) ==
    IF text = << >> THEN << << >> >>
    ELSE LET rest == split(Tail(text))
         IN  IF Head(text) = Dash THEN << << >> >> \o rest
             ELSE << <<Head(text)>> \o Head(rest) >> \o Tail(rest)

\* parseInt(text, 10): leading white space is skipped, one sign is read,
\* and the number is what the digits that follow spell; NaN without a digit
\* there
RECURSIVE leadingDigits(_, _)
leadingDigits(text, n) ==
    IF text = << >> \/ ~isDigit(Head(text)) THEN n
    ELSE leadingDigits(Tail(text), 10 * n + Head(text))

RECURSIVE trimStart(_)
trimStart(text) ==
    IF text # << >> /\ Head(text) = Space THEN trimStart(Tail(text)) ELSE text

unsigned(text) ==
    IF text = << >> \/ ~isDigit(Head(text)) THEN NaN
    ELSE leadingDigits(text, 0)

parseInt(text) ==
    LET trimmed == trimStart(text)
    IN  IF trimmed = << >> THEN NaN
        ELSE IF Head(trimmed) = Plus THEN unsigned(Tail(trimmed))
        ELSE IF Head(trimmed) = Dash
             THEN IF unsigned(Tail(trimmed)) = NaN THEN NaN
                  ELSE 0 - unsigned(Tail(trimmed))
        ELSE unsigned(trimmed)

\* parts[0] and parts[1] of the header (lines 308-310): parts[1] is
\* undefined without a dash and falsy when empty
rangeStart(range) == parseInt(split(replaceBytesEq(range))[1])
rangeEnd(range, totalSize) ==
    LET fields == split(replaceBytesEq(range))
    IN  IF Len(fields) >= 2 /\ fields[2] # << >>
        THEN parseInt(fields[2])
        ELSE totalSize - 1

\* the clamp without the limit of 2 MiB
actualEndUnlimited(start, end, totalSize) == jsMin(end, totalSize - 1)

\* lines 313-314 and 616-617
actualEnd(start, end, totalSize) ==
    jsMin(jsMin(end, jsAdd(start, maxRangeSize - 1)), totalSize - 1)

\* lines 315 and 618
rangeSize(start, aEnd) == jsAdd(jsSub(aEnd, start), 1)

\* a span of bytes of the object, from..to; empty when to < from
Span(from, to) == [from |-> from, to |-> to]
spanLen(sp) == IF sp.to < sp.from THEN 0 ELSE sp.to - sp.from + 1

RECURSIVE bytesIn(_)
bytesIn(spans) ==
    IF spans = << >> THEN 0 ELSE spanLen(Head(spans)) + bytesIn(Tail(spans))

\* the request and the response of a streaming route
Request(route, id, sent, range) ==
    [route |-> route, id |-> id, sent |-> sent, range |-> range]

\* if (range): the header was sent and is not the empty string
hasRange(req) == req.sent /\ req.range # << >>
NoRequest == Request("none", NULL, FALSE, << >>)

NoHeaders == [contentRange |-> << >>, contentLength |-> Undefined]
NoResponse ==
    [status |-> 0, json |-> FALSE, headers |-> NoHeaders, body |-> << >>,
     ended |-> FALSE]

\* res.status(status).json({success: false, ...})
jsonResponse(status) ==
    [status |-> status, json |-> TRUE, headers |-> NoHeaders, body |-> << >>,
     ended |-> TRUE]

\* res.writeHead(206, {...}), lines 324-330 and 632-638
partialHead(start, aEnd, totalSize) ==
    [status |-> 206, json |-> FALSE,
     headers |-> [contentRange |-> <<start, aEnd, totalSize>>,
                  contentLength |-> rangeSize(start, aEnd)],
     body |-> << >>, ended |-> FALSE]

\* res.writeHead(200, {...}), lines 390-393 and 656-661
fullHead(totalSize) ==
    [status |-> 200, json |-> FALSE,
     headers |-> [contentRange |-> << >>, contentLength |-> totalSize],
     body |-> << >>, ended |-> FALSE]

InitStreamIdle ==
    /\ streamPc = "idle"
    /\ streamReq = NoRequest
    /\ streamObj = Undefined
    /\ streamGot = << >>
    /\ streamResp = NoResponse

(***************************************************************************)
(* Values of the upload entry points: POST /upload                         *)
(* (routes/chunkedUpload.js, lines 15-66), uploadFileToS3                  *)
(* (utils/s3Upload.js, lines 96-184) and validateFile                      *)
(* (config/s3Storage.js, lines 63-100).  File sizes are in MiB.            *)
(***************************************************************************)
MiB == 1               \* 1024 * 1024 bytes, the unit of file sizes
FILE_SIZE_LIMITS ==
    [IMAGE |-> 10 * MiB, VIDEO |-> 2 * 1024 * MiB, DOCUMENT |-> 50 * MiB]
CHUNK_THRESHOLD == 100 * MiB
CHUNK_SIZE == 50 * MiB

\* mime types, one of each kind the code tells apart
MimeTypes == {"image/png", "image/heic", "video/mp4", "video/ogg",
              "application/octet-stream", "application/pdf", "text/plain"}
Extensions == {".mp4", ".txt"}

\* ALLOWED_FILE_TYPES, restricted to MimeTypes
ALLOWED_VIDEOS == {"video/mp4", "application/octet-stream"}
ALLOWED_DOCUMENTS == {"application/pdf"}
videoExtensions == {".mp4"}

\* mimetype.startsWith('image/') and mimetype.startsWith('video/')
startsWithImage(mimetype) == mimetype \in {"image/png", "image/heic"}
startsWithVideo(mimetype) == mimetype \in {"video/mp4", "video/ogg"}

\* a file as multer delivers it; without a buffer when none was sent
File(mimetype, ext, size) ==
    [buffer |-> TRUE, mimetype |-> mimetype, ext |-> ext, size |-> size]
NoFile == [buffer |-> FALSE, mimetype |-> "", ext |-> "", size |-> 0]

\* isVideoFile(mimetype, originalname), lines 103-115
isVideoFile(mimetype, ext) ==
    mimetype \in ALLOWED_VIDEOS \/ ext \in videoExtensions

\* validateFile(file, folder), lines 63-100: the errors it reports
validateFile(file) ==
    IF ~file.buffer THEN {"No file provided"}
    ELSE LET maxSize ==
               IF startsWithImage(file.mimetype) THEN FILE_SIZE_LIMITS.IMAGE
               ELSE IF startsWithVideo(file.mimetype)
                       \/ isVideoFile(file.mimetype, file.ext)
               THEN FILE_SIZE_LIMITS.VIDEO
               ELSE FILE_SIZE_LIMITS.DOCUMENT
             isValidType ==
               \/ startsWithImage(file.mimetype)
               \/ file.mimetype \in ALLOWED_VIDEOS
               \/ file.mimetype \in ALLOWED_DOCUMENTS
               \/ isVideoFile(file.mimetype, file.ext)
         IN  (IF file.size > maxSize THEN {"File size exceeds limit"} ELSE {})
               \cup (IF isValidType THEN {} ELSE {"File type is not allowed"})

\* a threshold that is itself chunked
isLargeVideoFromThreshold(file) ==
    isVideoFile(file.mimetype, file.ext) /\ file.size >= CHUNK_THRESHOLD

\* s3Upload.js, lines 130-131
isLargeVideo(file) ==
    isVideoFile(file.mimetype, file.ext) /\ file.size > CHUNK_THRESHOLD

\* what an entry point has answered: the JSON response of the route
\* (status, error) or the outcome of uploadFileToS3 (returned, thrown)
Answer(status, err, data, n) ==
    [status |-> status, error |-> err, data |-> data, sent |-> n]
NoAnswer == Answer(0, "", NoResult, 0)

InitEntryIdle ==
    /\ entryPc = "idle"
    /\ entryFile = NoFile
    /\ entryVia = "none"
    /\ entryPuts = 0
    /\ entryResp = NoAnswer

(***************************************************************************)
(* The metadata extractor (utils/videoMetadata.js).  A buffer is a         *)
(* sequence of bytes, read at 0-based offsets.  The 32-bit words of the    *)
(* buffers checked here are below 2^31.                                    *)
(***************************************************************************)
\* a videoBuffer: bytes, or a value that is no Buffer
Buffer(bytes) == [isBuffer |-> TRUE, bytes |-> bytes]
NotABuffer == [isBuffer |-> FALSE, bytes |-> << >>]

\* the bytes of the string 'mvhd', and Buffer.from([0x44, 0x89])
mvhd == <<109, 118, 104, 100>>
durationElementId == <<68, 137>>

\* Math.round(n / d) for n >= 0 and d > 0: halves are rounded up
round(n, d) == (n \div d) + (IF 2 * (n % d) >= d THEN 1 ELSE 0)

\* buffer.indexOf(value, byteOffset): the first match from byteOffset on
indexOf(bytes, value, byteOffset) ==
    LET hits == {i \in byteOffset..(Len(bytes) - Len(value)) :
                   \A k \in 1..Len(value) : bytes[i + k] = value[k]}
    IN  IF hits = {} THEN 0 - 1
        ELSE CHOOSE i \in hits : \A j \in hits : i <= j

readUInt8(bytes, offset) == bytes[offset + 1]

readUInt32BE(bytes, offset) ==
    ((bytes[offset + 1] * 256 + bytes[offset + 2]) * 256
       + bytes[offset + 3]) * 256 + bytes[offset + 4]

\* lines 48-68: the search loop for a 'mvhd' tag preceded by an atom size of
\* at least 108 that fits the rest of the buffer; -1 when there is none
RECURSIVE findMvhd(_, _)
findMvhd(bytes, searchStart) ==
    IF ~(searchStart < Len(bytes) - 8) THEN 0 - 1
    ELSE LET foundIndex == indexOf(bytes, mvhd, searchStart)
             atomStart == foundIndex - 4
         IN  IF foundIndex = 0 - 1 THEN 0 - 1
             ELSE IF /\ foundIndex >= 4
                     /\ readUInt32BE(bytes, atomStart) >= 108
                     /\ readUInt32BE(bytes, atomStart) <= Len(bytes) - atomStart
             THEN foundIndex
             ELSE findMvhd(bytes, foundIndex + 4)

\* extractMP4Duration, lines 38-159: every throw ends in the catch block
\* that returns 0
extractMP4Duration(bytes) ==
    LET mvhdIndex == findMvhd(bytes, 0)
        mvhdDataStart == mvhdIndex + 4
        version == readUInt8(bytes, mvhdDataStart)
        timeScale == IF version = 0
                     THEN readUInt32BE(bytes, mvhdDataStart + 12)
                     ELSE readUInt32BE(bytes, mvhdDataStart + 20)
        duration == IF version = 0
                    THEN readUInt32BE(bytes, mvhdDataStart + 16)
                    ELSE readUInt32BE(bytes, mvhdDataStart + 28)
    IN  IF mvhdIndex = 0 - 1 THEN 0
        ELSE IF mvhdDataStart + 20 > Len(bytes) THEN 0
        ELSE IF version \notin {0, 1} THEN 0
        ELSE IF version = 1 /\ mvhdDataStart + 28 > Len(bytes) THEN 0
        ELSE IF timeScale = 0 \/ duration = 0 THEN 0
        ELSE round(duration, timeScale)

\* extractVideoDuration, lines 7-31: 0 for what is no Buffer
extractVideoDuration(videoBuffer) ==
    IF ~videoBuffer.isBuffer THEN 0
    ELSE extractMP4Duration(videoBuffer.bytes)

\* buffer.readDoubleBE(offset) of a double whose low 32 bits are 0, as the
\* fraction num / den; sign, exponent field and the upper 20 bits of the
\* mantissa are in the first four bytes
readDoubleBE(bytes, offset) ==
    LET b0 == bytes[offset + 1]
        b1 == bytes[offset + 2]
        expo == (b0 % 128) * 16 + (b1 \div 16)
        m20 == ((b1 % 16) * 256 + bytes[offset + 3]) * 256 + bytes[offset + 4]
        e == expo - 1023
    IN  [negative |-> b0 >= 128,
         nan |-> expo = 2047 /\ m20 # 0,
         infinite |-> expo = 2047 /\ m20 = 0,
         zero |-> expo = 0 /\ m20 = 0,
         tiny |-> (expo = 0 /\ m20 # 0) \/ (expo > 0 /\ e < 0),
         huge |-> expo < 2047 /\ e > 26,
         num |-> IF e >= 20 /\ e <= 26 THEN (Pow2(20) + m20) * Pow2(e - 20)
                 ELSE Pow2(20) + m20,
         den |-> IF e >= 0 /\ e < 20 THEN Pow2(20 - e) ELSE 1]

\* durationMs > 0 && durationMs < 86400000 (line 331)
reasonable(durationMs) ==
    /\ ~durationMs.nan
    /\ ~durationMs.negative
    /\ ~durationMs.zero
    /\ ~durationMs.infinite
    /\ ~durationMs.huge
    /\ durationMs.tiny \/ durationMs.den > 1 \/ durationMs.num < 86400000

\* Math.round(durationMs / 1000) of a reasonable duration (line 332)
durationSeconds(durationMs) ==
    IF durationMs.tiny THEN 0
    ELSE round(durationMs.num, durationMs.den * 1000)

\* lines 320-341: the search loop of extractWebMDuration; the throw after it
\* ends in the catch block that returns 0
RECURSIVE findDuration(_, _)
findDuration(bytes, searchStart) ==
    IF ~(searchStart < Len(bytes) - 10) THEN 0
    ELSE LET foundIndex == indexOf(bytes, durationElementId, searchStart)
             dataStart == foundIndex + 2
         IN  IF foundIndex = 0 - 1 THEN 0
             ELSE IF /\ dataStart + 8 <= Len(bytes)
                     /\ reasonable(readDoubleBE(bytes, dataStart))
             THEN durationSeconds(readDoubleBE(bytes, dataStart))
             ELSE findDuration(bytes, foundIndex + 2)

\* extractWebMDuration, lines 312-348: buffer.length of what is no Buffer is
\* undefined and the loop is not entered
extractWebMDuration(videoBuffer) ==
    IF ~videoBuffer.isBuffer THEN 0
    ELSE findDuration(videoBuffer.bytes, 0)

\* the names every object literal inherits from Object.prototype
ObjectPrototype ==
    {"constructor", "__defineGetter__", "__defineSetter__", "hasOwnProperty",
     "__lookupGetter__", "__lookupSetter__", "isPrototypeOf",
     "propertyIsEnumerable", "toString", "valueOf", "__proto__",
     "toLocaleString"}

\* estimatedBitrates[mimetype] || estimatedBitrates.default, lines 174-183,
\* in bits per second.  estimatedBitrates is an object literal: for a
\* mimetype that names a member of Object.prototype the lookup gives that
\* function or object, which is truthy and no number (NaN in arithmetic).
estimatedBitrates(mimetype) ==
    IF mimetype = "video/mp4" THEN 3000000
    ELSE IF mimetype = "video/webm" THEN 2000000
    ELSE IF mimetype = "video/avi" THEN 4000000
    ELSE IF mimetype = "video/mov" THEN 3000000
    ELSE IF mimetype = "video/quicktime" THEN 3000000
    ELSE IF mimetype = "default" THEN 3000000
    ELSE IF mimetype \in ObjectPrototype THEN NaN
    ELSE 3000000

minDuration == 1
maxDuration == 7200

\* estimateDurationFromSize, lines 168-204:
\* Math.round((fileSize * 8) / bitrate), bounded; Math.round, Math.min and
\* Math.max of NaN are NaN
estimateDurationFromSize(size, mimetype) ==
    IF estimatedBitrates(mimetype) = NaN THEN NaN
    ELSE Max(minDuration,
             Min(maxDuration, round(size, estimatedBitrates(mimetype) \div 8)))

\* fileInfo: the name is known by its lower-case extension; a name and a
\* mimetype that are left out take their defaults (line 214)
NotAString == "null"
FileInfo(ext, size, mimetype) ==
    [isNull |-> FALSE,
     ext |-> IF ext = "" THEN ".mp4" ELSE ext,
     size |-> size,
     mimetype |-> IF mimetype = "" THEN "video/mp4" ELSE mimetype]

\* fileInfo = null: the default {} of the parameter is not taken, and no
\* property of it can be read
NullFileInfo == [FileInfo("", 0, "") EXCEPT !.isNull = TRUE]

\* the hint conditions of lines 223 and 243; originalname.toLowerCase()
\* is reached, and throws for a name that is no string, when the mimetype
\* does not decide
isMp4(info) == info.mimetype = "video/mp4" \/ info.ext = ".mp4"
isWebm(info) == info.mimetype = "video/webm" \/ info.ext = ".webm"
throwsAt(info, mimetype) == info.mimetype # mimetype /\ info.ext = NotAString

\* the metadata object: duration and extractionMethod
Metadata(duration, method) ==
    [duration |-> duration, extractionMethod |-> method, thrown |-> FALSE]
NoMetadata == Metadata(0, "none")

\* lines 214 and 291-297: for fileInfo = null the destructuring throws, and
\* so does fileInfo.originalname in the catch block: the promise of
\* extractVideoMetadata is rejected
errorRethrown == [duration |-> 0, extractionMethod |-> "none", thrown |-> TRUE]

\* lines 289-303: the catch block of extractVideoMetadata
errorFallback == Metadata(180, "error_fallback")

\* what was written into a buffer that holds an mvhd atom: the bytes before
\* the atom, the atom size, the version, the time scale, the two words of
\* the duration, a 'mvhd' tag without an atom in front, and the length
Box(pre, atomSize, version, timeScale, high, low, decoy) ==
    [present |-> TRUE, pre |-> pre, atomSize |-> atomSize, version |-> version,
     timeScale |-> timeScale, durationHigh |-> high, durationLow |-> low,
     decoy |-> decoy]
NoBox == [Box(0, 0, 0, 0, 0, 0, FALSE) EXCEPT !.present = FALSE]

NoInput == [videoBuffer |-> NotABuffer, fileInfo |-> FileInfo("", 0, ""),
            box |-> NoBox]

InitMetaIdle ==
    /\ metaPc = "idle"
    /\ metaIn = NoInput
    /\ metaOut = NoMetadata

InitCoordinator ==
    /\ pc = "idle"
    /\ cur = 0
    /\ fileSize = 0
    /\ uploadId = NULL
    /\ key = NULL
    /\ chunkedVideo = NoDoc
    /\ batchI = 0
    /\ parts = << >>
    /\ part = << >>
    /\ completeCalls = << >>
    /\ error = ""
    /\ result = NoResult
    /\ failures = {}

InitStore ==
    /\ now = 0
    /\ sessions = << >>
    /\ mpu = [u \in VideoIds |-> "none"]
    /\ aborts = {}

InitCancel ==
    /\ cancelPc = "idle"
    /\ cancelDoc = NoDoc
    /\ cancelResp = [videoId |-> NULL, status |-> 0]

InitSweep ==
    /\ sweepPc = "idle"
    /\ sweepAt = NoDate
    /\ sweepQueue = << >>
    /\ oldPc = "idle"
    /\ oldAt = NoDate
    /\ oldUploads = << >>
    /\ oldRet = NoReturn

Init ==
    /\ chunkSize \in 1..MaxSmallChunk
    /\ InitCoordinator
    /\ InitStore
    /\ InitCancel
    /\ InitSweep
    /\ InitStreamIdle
    /\ InitEntryIdle
    /\ InitMetaIdle
    /\ buf = << >>
    /\ chunks = << >>

(***************************************************************************)
(* uploadVideoInChunks.                                                    *)
(***************************************************************************)
\* The catch block up to its first await (lines 129-141): the abort request
\* is sent when the upload was created, otherwise the error is thrown at once.
Catch(cause) ==
    /\ error' = cause
    /\ failures' = IF cause = "part" THEN failures ELSE failures \cup {cause}
    /\ IF shouldAbort(uploadId, key)
       THEN /\ aborts' = aborts \cup {AbortCall("coordinator", uploadId, key)}
            /\ pc' = "abort"
            /\ result' = result
       ELSE /\ aborts' = aborts
            /\ pc' = "done"
            /\ result' = Failure(rethrown(cause, ""))

\* lines 17-36: a call of uploadVideoInChunks, up to the await of
\* CreateMultipartUpload.  An invocation starts when the previous one and
\* the part uploads it left behind have ended.
invoke(size) ==
    /\ pc \in {"idle", "done"}
    /\ settled(part)
    /\ cur < MaxUploads
    /\ cur' = cur + 1
    /\ fileSize' = size
    /\ uploadId' = NULL
    /\ key' = generateUniqueFilename(cur + 1)
    /\ chunkedVideo' = NoDoc
    /\ batchI' = 0
    /\ parts' = << >>
    /\ part' = [pn \in 1..totalChunks(size, chunkSize) |-> NoPart]
    /\ completeCalls' = << >>
    /\ error' = ""
    /\ result' = NoResult
    /\ failures' = {}
    /\ pc' = "create"

\* uploadVideoInChunks is called
StartUpload(size) ==
    /\ invoke(size)
    /\ UNCHANGED <<now, chunkSize, storeVars, cancelVars, sweepVars, otherVars>>

\* the save of the document is not awaited: the first batch goes out with it
CreateOkNoAwait ==
    /\ pc = "create"
    /\ mpu[cur] = "none"
    /\ mpu' = [mpu EXCEPT ![cur] = "open"]
    /\ uploadId' = cur
    /\ chunkedVideo' = newChunkedVideo(cur, key, cur, fileSize, now)
    /\ part' = dispatchBatch(part, 0, totalChunks(fileSize, chunkSize))
    /\ pc' = "save1"
    /\ UNCHANGED <<now, chunkSize, sessions, aborts, cur, fileSize, key, batchI,
                   parts, completeCalls, error, result, failures, cancelVars,
                   sweepVars, otherVars>>

\* lines 36-51: CreateMultipartUpload answered; the document is built and
\* its save is awaited.
CreateOk ==
    /\ pc = "create"
    /\ mpu[cur] = "none"
    /\ mpu' = [mpu EXCEPT ![cur] = "open"]
    /\ uploadId' = cur
    /\ chunkedVideo' = newChunkedVideo(cur, key, cur, fileSize, now)
    /\ pc' = "save1"
    /\ UNCHANGED <<now, chunkSize, sessions, aborts, cur, fileSize, key, batchI,
                   parts, part, completeCalls, error, result, cancelVars,
                   sweepVars, otherVars, failures>>

CreateFail ==
    /\ pc = "create"
    /\ Catch("create")
    /\ UNCHANGED <<now, chunkSize, sessions, mpu, cur, fileSize, uploadId, key,
                   chunkedVideo, batchI, parts, part, completeCalls,
                   cancelVars, sweepVars, otherVars>>

\* lines 81-92: sort the parts and send CompleteMultipartUpload
SendComplete(ps) ==
    /\ parts' = sortParts(ps)
    /\ completeCalls' = Append(completeCalls, sortParts(ps))
    /\ pc' = "complete"

\* lines 51-72: the document is saved; the first batch is dispatched (an
\* empty buffer has no batch and goes straight to the completion).
Save1Ok ==
    /\ pc = "save1"
    /\ validates(chunkedVideo)
    /\ sessions' = Put(sessions, chunkedVideo)
    /\ LET total == totalChunks(fileSize, chunkSize)
       IN  IF total > 0
           THEN /\ part' = dispatchBatch(part, 0, total)
                /\ batchI' = 0
                /\ pc' = "batch"
                /\ UNCHANGED <<parts, completeCalls>>
           ELSE /\ SendComplete(parts)
                /\ UNCHANGED <<part, batchI>>
    /\ UNCHANGED <<now, chunkSize, mpu, aborts, cur, fileSize, uploadId, key,
                   chunkedVideo, error, result, cancelVars, sweepVars,
                   otherVars, failures>>

Save1Fail ==
    /\ pc = "save1"
    /\ Catch("save")
    /\ UNCHANGED <<now, chunkSize, sessions, mpu, cur, fileSize, uploadId, key,
                   chunkedVideo, batchI, parts, part, completeCalls,
                   cancelVars, sweepVars, otherVars>>

\* uploadPart, lines 167-172: UploadPart answered with an ETag.  When this
\* was the last pending part of the batch, Promise.all resolves and the
\* loop goes on (lines 74-92): next batch, or sort and complete.
PartOk(pn) ==
    /\ pn \in DOMAIN part
    /\ part[pn].st = "inflight"
    /\ mpu[uploadId] = "open"
    /\ LET p2 == [part EXCEPT ![pn].st = "ok",
                              ![pn].etag = ETagOf(pn, part[pn].retries + 1)]
           total == totalChunks(fileSize, chunkSize)
           batch == batchOf(batchI, total)
           ps2 == parts \o [k \in 1..Cardinality(batch) |->
                               PartResult(p2, batchI + k)]
           nextI == batchI + concurrencyLimit
       IN  IF pc = "batch" /\ \A q \in batch : p2[q].st = "ok"
           THEN IF nextI < total
                THEN /\ part' = dispatchBatch(p2, nextI, total)
                     /\ batchI' = nextI
                     /\ parts' = ps2
                     /\ UNCHANGED <<pc, completeCalls>>
                ELSE /\ part' = p2
                     /\ SendComplete(ps2)
                     /\ UNCHANGED batchI
           ELSE /\ part' = p2
                /\ UNCHANGED <<pc, batchI, parts, completeCalls>>
    /\ UNCHANGED <<now, chunkSize, storeVars, cur, fileSize, uploadId, key,
                   chunkedVideo, error, result, cancelVars, sweepVars,
                   otherVars, failures>>

\* uploadPart giving up one failure later: if (retries > maxRetries)
PartFailOneMore(pn) ==
    /\ pn \in DOMAIN part
    /\ part[pn].st = "inflight"
    /\ LET r == part[pn].retries + 1
       IN  IF r > MAX_RETRIES
           THEN /\ part' = [part EXCEPT ![pn].st = "failed", ![pn].retries = r]
                /\ IF pc = "batch"
                   THEN Catch("part")
                   ELSE UNCHANGED <<pc, error, aborts, result, failures>>
           ELSE /\ part' = [part EXCEPT ![pn].st = "waiting",
                                        ![pn].retries = r,
                                        ![pn].delay = retryDelay(r)]
                /\ UNCHANGED <<pc, error, aborts, result, failures>>
    /\ UNCHANGED <<now, chunkSize, sessions, mpu, cur, fileSize, uploadId, key,
                   chunkedVideo, batchI, parts, completeCalls, cancelVars,
                   sweepVars, otherVars>>

\* uploadPart, lines 173-184: UploadPart failed.  After MAX_RETRIES failures
\* the error is thrown: Promise.all rejects, unless it already has, and the
\* catch block of uploadVideoInChunks runs.  Otherwise the backoff starts.
PartFail(pn) ==
    /\ pn \in DOMAIN part
    /\ part[pn].st = "inflight"
    /\ LET r == part[pn].retries + 1
       IN  IF r >= MAX_RETRIES
           THEN /\ part' = [part EXCEPT ![pn].st = "failed", ![pn].retries = r]
                /\ IF pc = "batch"
                   THEN Catch("part")
                   ELSE UNCHANGED <<pc, error, aborts, result, failures>>
           ELSE /\ part' = [part EXCEPT ![pn].st = "waiting",
                                        ![pn].retries = r,
                                        ![pn].delay = retryDelay(r)]
                /\ UNCHANGED <<pc, error, aborts, result, failures>>
    /\ UNCHANGED <<now, chunkSize, sessions, mpu, cur, fileSize, uploadId, key,
                   chunkedVideo, batchI, parts, completeCalls, cancelVars,
                   sweepVars, otherVars>>

\* uploadPart, lines 183 and 156-167: the backoff timer fires and the next
\* UploadPart request is sent.
PartRetry(pn) ==
    /\ pn \in DOMAIN part
    /\ part[pn].st = "waiting"
    /\ part' = [part EXCEPT ![pn].st = "inflight"]
    /\ UNCHANGED <<now, chunkSize, storeVars, pc, cur, fileSize, uploadId, key,
                   chunkedVideo, batchI, parts, completeCalls, error, result,
                   cancelVars, sweepVars, otherVars, failures>>

\* The object store completes an open upload when the manifest is not empty,
\* ascends by part number and names uploaded parts with their ETags.
storeAccepts(m, p) ==
    /\ Len(m) > 0
    /\ \A i \in 1..Len(m) :
          /\ m[i].PartNumber \in DOMAIN p
          /\ p[m[i].PartNumber].st = "ok"
          /\ p[m[i].PartNumber].etag = m[i].ETag
    /\ \A i \in 1..(Len(m) - 1) : m[i].PartNumber < m[i + 1].PartNumber

\* lines 92-100: CompleteMultipartUpload succeeded; the document is marked
\* complete in memory and its save is awaited.
CompleteOk ==
    /\ pc = "complete"
    /\ mpu[uploadId] = "open"
    /\ storeAccepts(completeCalls[Len(completeCalls)], part)
    /\ mpu' = [mpu EXCEPT ![uploadId] = "completed"]
    /\ chunkedVideo' = markComplete(chunkedVideo, getPublicUrl(key), now)
    /\ pc' = "save2"
    /\ UNCHANGED <<now, chunkSize, sessions, aborts, cur, fileSize, uploadId,
                   key, batchI, parts, part, completeCalls, error, result,
                   cancelVars, sweepVars, otherVars, failures>>

\* the error of CompleteMultipartUpload is swallowed
CompleteFailIgnored ==
    /\ pc = "complete"
    /\ chunkedVideo' = markComplete(chunkedVideo, getPublicUrl(key), now)
    /\ pc' = "save2"
    /\ UNCHANGED <<now, chunkSize, storeVars, cur, fileSize, uploadId, key,
                   batchI, parts, part, completeCalls, error, result, failures,
                   cancelVars, sweepVars, otherVars>>

CompleteFail ==
    /\ pc = "complete"
    /\ Catch("complete")
    /\ UNCHANGED <<now, chunkSize, sessions, mpu, cur, fileSize, uploadId, key,
                   chunkedVideo, batchI, parts, part, completeCalls,
                   cancelVars, sweepVars, otherVars>>

\* lines 100-111: the completed document is saved (an update of the stored
\* document, which must still exist); extractVideoMetadata is awaited.
Save2Ok ==
    /\ pc = "save2"
    /\ chunkedVideo.videoId \in DOMAIN sessions
    /\ sessions' = Put(sessions, chunkedVideo)
    /\ pc' = "extract"
    /\ UNCHANGED <<now, chunkSize, mpu, aborts, cur, fileSize, uploadId, key,
                   chunkedVideo, batchI, parts, part, completeCalls, error,
                   result, cancelVars, sweepVars, otherVars, failures>>

Save2Fail ==
    /\ pc = "save2"
    /\ Catch("finalize")
    /\ UNCHANGED <<now, chunkSize, sessions, mpu, cur, fileSize, uploadId, key,
                   chunkedVideo, batchI, parts, part, completeCalls,
                   cancelVars, sweepVars, otherVars>>

\* lines 107-127: the metadata is extracted, with the duration d, and the
\* result is returned
ExtractOk(d) ==
    /\ pc = "extract"
    /\ result' = Success(chunkedVideo.videoId, d)
    /\ pc' = "done"
    /\ UNCHANGED <<now, chunkSize, storeVars, cur, fileSize, uploadId, key,
                   chunkedVideo, batchI, parts, part, completeCalls, error,
                   cancelVars, sweepVars, otherVars, failures>>

\* the error of the extraction reaches the catch block of the upload
ExtractFailThrows ==
    /\ pc = "extract"
    /\ Catch("extract")
    /\ UNCHANGED <<now, chunkSize, sessions, mpu, cur, fileSize, uploadId, key,
                   chunkedVideo, batchI, parts, part, completeCalls,
                   cancelVars, sweepVars, otherVars>>

\* lines 113-127: the extraction threw; the duration stays 0
ExtractFail ==
    /\ pc = "extract"
    /\ result' = Success(chunkedVideo.videoId, 0)
    /\ pc' = "done"
    /\ UNCHANGED <<now, chunkSize, storeVars, cur, fileSize, uploadId, key,
                   chunkedVideo, batchI, parts, part, completeCalls, error,
                   cancelVars, sweepVars, otherVars, failures>>

\* The object store aborts an upload that is open (or already aborted).
storeAborts(uid) == mpu[uid] \in {"open", "aborted"}

\* lines 141-148: AbortMultipartUpload succeeded; the error is thrown
AbortOk ==
    /\ pc = "abort"
    /\ storeAborts(uploadId)
    /\ mpu' = [mpu EXCEPT ![uploadId] = "aborted"]
    /\ result' = Failure(rethrown(error, ""))
    /\ pc' = "done"
    /\ UNCHANGED <<now, chunkSize, sessions, aborts, cur, fileSize, uploadId,
                   key, chunkedVideo, batchI, parts, part, completeCalls,
                   error, cancelVars, sweepVars, otherVars, failures>>

\* lines 143-148: AbortMultipartUpload failed; abortError is logged and the
\* error of the upload is thrown
AbortFail ==
    /\ pc = "abort"
    /\ result' = Failure(rethrown(error, "abort"))
    /\ failures' = failures \cup {"abort"}
    /\ pc' = "done"
    /\ UNCHANGED <<now, chunkSize, storeVars, cur, fileSize, uploadId, key,
                   chunkedVideo, batchI, parts, part, completeCalls, error,
                   cancelVars, sweepVars, otherVars>>

(***************************************************************************)
(* DELETE /:videoId (routes/chunkedUpload.js, lines 118-152).              *)
(***************************************************************************)
Response(vid, status) == [videoId |-> vid, status |-> status]

\* a missing document is answered like a cancelled one
CancelFindIdempotent(vid) ==
    /\ cancelPc = "idle"
    /\ IF vid \notin DOMAIN sessions
       THEN /\ cancelDoc' = NoDoc
            /\ cancelResp' = Response(vid, 200)
            /\ cancelPc' = "idle"
       ELSE /\ cancelDoc' = sessions[vid]
            /\ IF sessions[vid].isComplete
               THEN /\ cancelResp' = Response(vid, 400)
                    /\ cancelPc' = "idle"
               ELSE /\ cancelResp' = Response(vid, 0)
                    /\ cancelPc' = "remove"
    /\ UNCHANGED <<now, chunkSize, storeVars, coordVars, sweepVars, otherVars>>

\* the route without the isComplete test of lines 130-135
CancelFindAnyState(vid) ==
    /\ cancelPc = "idle"
    /\ IF vid \notin DOMAIN sessions
       THEN /\ cancelDoc' = NoDoc
            /\ cancelResp' = Response(vid, 404)
            /\ cancelPc' = "idle"
       ELSE /\ cancelDoc' = sessions[vid]
            /\ cancelResp' = Response(vid, 0)
            /\ cancelPc' = "remove"
    /\ UNCHANGED <<now, chunkSize, storeVars, coordVars, sweepVars, otherVars>>

\* lines 120-138: the request arrives and findOne answers: 404 without a
\* document, 400 for a complete one, otherwise remove() is awaited.
CancelFind(vid) ==
    /\ cancelPc = "idle"
    /\ IF vid \notin DOMAIN sessions
       THEN /\ cancelDoc' = NoDoc
            /\ cancelResp' = Response(vid, 404)
            /\ cancelPc' = "idle"
       ELSE /\ cancelDoc' = sessions[vid]
            /\ IF sessions[vid].isComplete
               THEN /\ cancelResp' = Response(vid, 400)
                    /\ cancelPc' = "idle"
               ELSE /\ cancelResp' = Response(vid, 0)
                    /\ cancelPc' = "remove"
    /\ UNCHANGED <<now, chunkSize, storeVars, coordVars, sweepVars, otherVars>>

\* lines 122 and 144-151: findOne threw
CancelFindFail(vid) ==
    /\ cancelPc = "idle"
    /\ cancelDoc' = NoDoc
    /\ cancelResp' = Response(vid, 500)
    /\ cancelPc' = "idle"
    /\ UNCHANGED <<now, chunkSize, storeVars, coordVars, sweepVars, otherVars>>

\* lines 138-143: remove() deleted the document.  The schema registers no
\* pre-remove hook, so no request goes to the object store.
CancelRemoveOk ==
    /\ cancelPc = "remove"
    /\ sessions' = Remove(sessions, cancelDoc.videoId)
    /\ cancelResp' = Response(cancelDoc.videoId, 200)
    /\ cancelPc' = "idle"
    /\ UNCHANGED <<now, chunkSize, mpu, aborts, coordVars, cancelDoc, sweepVars,
                   otherVars>>

\* lines 138 and 144-151: remove() threw
CancelRemoveFail ==
    /\ cancelPc = "remove"
    /\ cancelResp' = Response(cancelDoc.videoId, 500)
    /\ cancelPc' = "idle"
    /\ UNCHANGED <<now, chunkSize, storeVars, coordVars, cancelDoc, sweepVars,
                   otherVars>>

(***************************************************************************)
(* cleanupIncompleteUploads (s3ChunkedVideoUploader.js, lines 202-235).    *)
(***************************************************************************)
\* a filter that selects the complete uploads too
isStaleAnyState(doc, t) == doc.createdAt < t - StaleHours

\* the filter of ChunkedVideo.find, lines 206-209
isStale(doc, t) == ~doc.isComplete /\ doc.createdAt < t - StaleHours

\* the documents find returns, in the order they were inserted
RECURSIVE inOrder(_, _)
inOrder(store, ids) ==
    IF ids = {} THEN << >>
    ELSE LET v == CHOOSE x \in ids : \A y \in ids : x <= y
         IN  <<store[v]>> \o inOrder(store, ids \ {v})

incompleteUploads(store, t) ==
    inOrder(store, {v \in DOMAIN store : isStale(store[v], t)})

\* cleanupOldUploads returning the number of uploads that were aborted
cleanupReturnAborted(found) ==
    Cardinality({i \in 1..Len(found) : mpu[found[i].uploadId] = "aborted"})

\* chunkedVideo.js, line 202: return oldUploads.length
cleanupReturn(found) == Len(found)

\* cleanupIncompleteUploads returns (it returns no value); when
\* cleanupOldUploads awaits it (chunkedVideo.js, line 198), that call goes on
\* to its own return (lines 201-202), where oldUploads goes out of scope.
SweepReturn ==
    IF oldPc = "sweep"
    THEN /\ oldRet' = cleanupReturn(oldUploads)
         /\ oldPc' = "idle"
         /\ oldAt' = oldAt
         /\ oldUploads' = << >>
    ELSE UNCHANGED oldVars

\* the for loop reaches the uploads q: AbortMultipartUpload is sent for the
\* first of them (lines 211-220), or the loop ends
SweepVisit(q) ==
    /\ sweepQueue' = q
    /\ IF q = << >>
       THEN /\ sweepPc' = "idle"
            /\ aborts' = aborts
            /\ SweepReturn
       ELSE /\ sweepPc' = "abort"
            /\ aborts' = aborts \cup
                           {AbortCall("janitor", q[1].uploadId, q[1].s3Key)}
            /\ UNCHANGED oldVars

\* One cleanup runs at a time.
\* lines 202-209: a cleanup run starts (POST /cleanup, line 162 of the
\* routes); the filter is built from Date.now() and find is awaited
SweepCall ==
    /\ sweepPc = "idle"
    /\ oldPc = "idle"
    /\ sweepAt' = now
    /\ sweepPc' = "find"
    /\ UNCHANGED <<now, chunkSize, storeVars, coordVars, cancelVars,
                   sweepQueue, oldVars, otherVars>>

\* lines 206-220: find answers with the documents that match the filter of
\* the call, as they are in the collection now
SweepFind ==
    /\ sweepPc = "find"
    /\ SweepVisit(incompleteUploads(sessions, sweepAt))
    /\ sweepAt' = NoDate
    /\ UNCHANGED <<now, chunkSize, sessions, mpu, coordVars, cancelVars,
                   otherVars>>

\* lines 206 and 232-234: find threw
SweepFindFail ==
    /\ sweepPc = "find"
    /\ sweepPc' = "idle"
    /\ sweepAt' = NoDate
    /\ SweepReturn
    /\ UNCHANGED <<now, chunkSize, storeVars, coordVars, cancelVars,
                   sweepQueue, otherVars>>

\* lines 220-223: the abort succeeded; findByIdAndDelete is awaited
SweepAbortOk ==
    /\ sweepPc = "abort"
    /\ storeAborts(sweepQueue[1].uploadId)
    /\ mpu' = [mpu EXCEPT ![sweepQueue[1].uploadId] = "aborted"]
    /\ sweepPc' = "delete"
    /\ UNCHANGED <<now, chunkSize, sessions, aborts, coordVars, cancelVars,
                   sweepAt, sweepQueue, oldVars, otherVars>>

\* the first failed abort ends the loop
SweepAbortFailStops ==
    /\ sweepPc = "abort"
    /\ SweepVisit(<< >>)
    /\ UNCHANGED <<now, chunkSize, sessions, mpu, coordVars, cancelVars,
                   sweepAt, otherVars>>

\* lines 226-228: the abort failed; the loop goes on with the next upload
SweepAbortFail ==
    /\ sweepPc = "abort"
    /\ SweepVisit(Tail(sweepQueue))
    /\ UNCHANGED <<now, chunkSize, sessions, mpu, coordVars, cancelVars,
                   sweepAt, otherVars>>

\* lines 223-225: findByIdAndDelete removed the document, or found none
\* left to remove; the loop goes on
SweepDeleteOk ==
    /\ sweepPc = "delete"
    /\ sessions' = Remove(sessions, sweepQueue[1].videoId)
    /\ SweepVisit(Tail(sweepQueue))
    /\ UNCHANGED <<now, chunkSize, mpu, coordVars, cancelVars, sweepAt,
                   otherVars>>

\* lines 223 and 226-228: findByIdAndDelete threw; the loop goes on
SweepDeleteFail ==
    /\ sweepPc = "delete"
    /\ SweepVisit(Tail(sweepQueue))
    /\ UNCHANGED <<now, chunkSize, sessions, mpu, coordVars, cancelVars,
                   sweepAt, otherVars>>

(***************************************************************************)
(* ChunkedVideo.cleanupOldUploads (chunkedVideo.js, lines 186-207).        *)
(***************************************************************************)
\* lines 186-193: the call; twentyFourHoursAgo is computed from Date.now()
\* and find is awaited
OldCall ==
    /\ oldPc = "idle"
    /\ sweepPc = "idle"
    /\ oldAt' = now
    /\ oldUploads' = << >>
    /\ oldRet' = NoReturn
    /\ oldPc' = "find"
    /\ UNCHANGED <<now, chunkSize, storeVars, coordVars, cancelVars, sweepPc,
                   sweepAt, sweepQueue, otherVars>>

\* lines 190-202: find answers with the documents older than
\* twentyFourHoursAgo, as they are in the collection now.  Without old
\* uploads the call returns 0 at once (lines 195 and 201-202); otherwise it
\* calls cleanupIncompleteUploads, which builds a filter of its own from
\* Date.now() and awaits a find of its own.
OldFind ==
    /\ oldPc = "find"
    /\ oldUploads' = incompleteUploads(sessions, oldAt)
    /\ oldAt' = NoDate
    /\ IF oldUploads' = << >>
       THEN /\ oldRet' = cleanupReturn(<< >>)
            /\ oldPc' = "idle"
            /\ sweepPc' = "idle"
            /\ sweepAt' = sweepAt
       ELSE /\ oldRet' = NoReturn
            /\ oldPc' = "sweep"
            /\ sweepPc' = "find"
            /\ sweepAt' = now
    /\ UNCHANGED <<now, chunkSize, storeVars, coordVars, cancelVars,
                   sweepQueue, otherVars>>

\* lines 190 and 203-206: find threw; the catch block returns 0
OldFindFail ==
    /\ oldPc = "find"
    /\ oldUploads' = << >>
    /\ oldAt' = NoDate
    /\ oldRet' = 0
    /\ oldPc' = "idle"
    /\ UNCHANGED <<now, chunkSize, storeVars, coordVars, cancelVars,
                   sweepPc, sweepAt, sweepQueue, otherVars>>

(***************************************************************************)
(* GET /stream/:videoId (routes/chunkedUpload.js, lines 282-438).          *)
(***************************************************************************)
\* lines 304-333: the range branch, after the document was found complete.
\* The headers are written first (line 324).  uploadedChunks and chunkSize
\* are no paths of chunkedVideoSchema, so for every document
\* chunkedVideo.uploadedChunks is undefined and .sort throws at line 333: the
\* catch block finds the headers sent and answers nothing (lines 428-436).
\* The loop over the chunks and res.end() (lines 334-387) run in no
\* execution.
streamRange(doc, range) ==
    LET totalSize == doc.totalSize
        start == rangeStart(range)
        aEnd == actualEnd(start, rangeEnd(range, totalSize), totalSize)
    IN  /\ get(doc, "uploadedChunks") = Undefined
        /\ streamResp' = partialHead(start, aEnd, totalSize)
        /\ streamPc' = "open"

\* lines 388-396: the branch without a Range header; .sort throws at line
\* 396, after the headers, and lines 397-427 run in no execution
streamWhole(doc) ==
    /\ get(doc, "uploadedChunks") = Undefined
    /\ streamResp' = fullHead(doc.totalSize)
    /\ streamPc' = "open"

\* lines 284-302: a request arrives and findOne answers: 404 without a
\* document, 400 for an incomplete one.  One request is followed from its
\* arrival to its end.
StreamVideo(req) ==
    /\ streamPc = "idle"
    /\ req.route = "stream"
    /\ streamReq' = req
    /\ IF req.id \notin DOMAIN sessions
       THEN /\ streamResp' = jsonResponse(404)
            /\ streamPc' = "closed"
       ELSE IF ~sessions[req.id].isComplete
       THEN /\ streamResp' = jsonResponse(400)
            /\ streamPc' = "closed"
       ELSE IF hasRange(req)
       THEN streamRange(sessions[req.id], req.range)
       ELSE streamWhole(sessions[req.id])
    /\ UNCHANGED <<now, chunkSize, storeVars, coordVars, cancelVars, sweepVars,
                   partitionVars, entryVars, metaVars,
                   streamObj, streamGot>>

\* lines 289 and 428-436: findOne threw
StreamVideoFail(req) ==
    /\ streamPc = "idle"
    /\ req.route = "stream"
    /\ streamReq' = req
    /\ streamResp' = jsonResponse(500)
    /\ streamPc' = "closed"
    /\ UNCHANGED <<now, chunkSize, storeVars, coordVars, cancelVars, sweepVars,
                   partitionVars, entryVars, metaVars,
                   streamObj, streamGot>>

(***************************************************************************)
(* GET /direct/:subSectionId (routes/chunkedUpload.js, lines 540-683).     *)
(***************************************************************************)
\* lines 541-605: a request arrives and SubSection.findById answers: 404
\* without a video url, 400 for an url of no known format; otherwise the
\* HeadObject is awaited
DirectVideo(req, found) ==
    /\ streamPc = "idle"
    /\ req.route = "direct"
    /\ streamReq' = req
    /\ streamGot' = << >>
    /\ IF found = "missing"
       THEN /\ streamResp' = jsonResponse(404)
            /\ streamPc' = "closed"
       ELSE IF found = "invalid"
       THEN /\ streamResp' = jsonResponse(400)
            /\ streamPc' = "closed"
       ELSE /\ streamResp' = NoResponse
            /\ streamPc' = "head"
    /\ UNCHANGED <<now, chunkSize, storeVars, coordVars, cancelVars, sweepVars,
                   partitionVars, entryVars, metaVars,
                   streamObj>>

\* lines 553 and 673-682: findById threw
DirectVideoFail(req) ==
    /\ streamPc = "idle"
    /\ req.route = "direct"
    /\ streamReq' = req
    /\ streamGot' = << >>
    /\ streamResp' = jsonResponse(500)
    /\ streamPc' = "closed"
    /\ UNCHANGED <<now, chunkSize, storeVars, coordVars, cancelVars, sweepVars,
                   partitionVars, entryVars, metaVars,
                   streamObj>>

\* lines 605-630 and 648-654: HeadObject answered with the ContentLength;
\* the GetObject, with the clamped range or without one, is awaited
DirectHeadOk ==
    /\ streamPc = "head"
    /\ streamObj # Undefined
    /\ streamPc' = "get"
    /\ UNCHANGED <<now, chunkSize, storeVars, coordVars, cancelVars, sweepVars,
                   partitionVars, entryVars, metaVars,
                   streamReq, streamObj, streamGot, streamResp>>

\* lines 605 and 673-682: HeadObject threw, as it does without the object
DirectHeadFail ==
    /\ streamPc = "head"
    /\ streamResp' = jsonResponse(500)
    /\ streamPc' = "closed"
    /\ UNCHANGED <<now, chunkSize, storeVars, coordVars, cancelVars, sweepVars,
                   partitionVars, entryVars, metaVars,
                   streamReq, streamObj, streamGot>>

\* what S3 returns for Range: bytes=start-aEnd of an object of size bytes:
\* the bytes of a satisfiable range, the whole object for a range it
\* cannot parse or whose end lies before its start
s3Range(start, aEnd, size) ==
    IF start = NaN \/ aEnd = NaN \/ aEnd < start
    THEN Span(0, size - 1)
    ELSE Span(start, Min(aEnd, size - 1))

\* a well-formed range that starts past the object is refused (InvalidRange)
s3Refuses(start, aEnd, size) ==
    start # NaN /\ aEnd # NaN /\ start <= aEnd /\ start >= size

\* lines 630-646 and 654-669: GetObject answered and the headers are
\* written.  With a Body in the answer its first chunk is awaited; without
\* one (if (response.Body) is false) the loop is skipped and res.end() is
\* called at once.
DirectGetOk(withBody) ==
    /\ streamPc = "get"
    /\ LET start == rangeStart(streamReq.range)
           aEnd == actualEnd(start, rangeEnd(streamReq.range, streamObj),
                             streamObj)
           head == IF hasRange(streamReq)
                   THEN partialHead(start, aEnd, streamObj)
                   ELSE fullHead(streamObj)
           got == IF hasRange(streamReq)
                  THEN s3Range(start, aEnd, streamObj)
                  ELSE Span(0, streamObj - 1)
       IN  /\ hasRange(streamReq) => ~s3Refuses(start, aEnd, streamObj)
           /\ streamGot' = IF withBody THEN <<got>> ELSE << >>
           /\ streamResp' = IF withBody THEN head
                            ELSE [head EXCEPT !.ended = TRUE]
    /\ streamPc' = IF withBody THEN "body" ELSE "closed"
    /\ UNCHANGED <<now, chunkSize, storeVars, coordVars, cancelVars, sweepVars,
                   partitionVars, entryVars, metaVars,
                   streamReq, streamObj>>

\* lines 630 or 654, and 673-682: GetObject threw
DirectGetFail ==
    /\ streamPc = "get"
    /\ streamResp' = jsonResponse(500)
    /\ streamPc' = "closed"
    /\ UNCHANGED <<now, chunkSize, storeVars, coordVars, cancelVars, sweepVars,
                   partitionVars, entryVars, metaVars,
                   streamReq, streamObj, streamGot>>

\* res.write(chunk): the bytes follow those written before
write(body, sp) ==
    IF spanLen(sp) = 0 THEN body
    ELSE IF body # << >> /\ body[Len(body)].to + 1 = sp.from
    THEN [body EXCEPT ![Len(body)].to = sp.to]
    ELSE Append(body, sp)

\* lines 642-644 and 665-667: the body stream yields its next chunk, of n
\* bytes, and the chunk is written; the next one is awaited.  streamGot
\* holds the bytes the stream has not yielded yet.
DirectBodyChunk(n) ==
    /\ streamPc = "body"
    /\ n >= 1
    /\ n <= spanLen(streamGot[1])
    /\ streamResp' =
         [streamResp EXCEPT !.body =
            write(@, Span(streamGot[1].from, streamGot[1].from + n - 1))]
    /\ streamGot' = <<Span(streamGot[1].from + n, streamGot[1].to)>>
    /\ streamPc' = "body"
    /\ UNCHANGED <<now, chunkSize, storeVars, coordVars, cancelVars, sweepVars,
                   partitionVars, entryVars, metaVars,
                   streamReq, streamObj>>

\* lines 642-646 and 665-669: the body stream ended after its last chunk
\* and res.end() is called
DirectBodyOk ==
    /\ streamPc = "body"
    /\ spanLen(streamGot[1]) = 0
    /\ streamResp' = [streamResp EXCEPT !.ended = TRUE]
    /\ streamGot' = << >>
    /\ streamPc' = "closed"
    /\ UNCHANGED <<now, chunkSize, storeVars, coordVars, cancelVars, sweepVars,
                   partitionVars, entryVars, metaVars,
                   streamReq, streamObj>>

\* lines 642 or 665, and 673-682: the body stream failed while its next
\* chunk or its end was awaited, after any number of chunks; the headers
\* are sent, so the catch block answers nothing and the response keeps
\* what was written
DirectBodyFail ==
    /\ streamPc = "body"
    /\ streamGot' = << >>
    /\ streamPc' = "open"
    /\ UNCHANGED <<now, chunkSize, storeVars, coordVars, cancelVars, sweepVars,
                   partitionVars, entryVars, metaVars,
                   streamReq, streamObj, streamResp>>

(***************************************************************************)
(* POST /upload (routes/chunkedUpload.js, lines 15-66).                    *)
(***************************************************************************)
\* lines 15-41: the request arrives.  Without req.file the route answers
\* 400; otherwise it calls uploadVideoInChunks, whatever the type and the
\* size of the file, and awaits it.
PostUpload(file) ==
    /\ entryPc = "idle"
    /\ entryVia' = "route"
    /\ entryFile' = file
    /\ IF ~file.buffer
       THEN /\ entryResp' = Answer(400, "MISSING_VIDEO_FILE", NoResult, entryResp.sent + 1)
            /\ entryPc' = "done"
            /\ UNCHANGED coordVars
       ELSE /\ invoke(file.size)
            /\ entryResp' = entryResp
            /\ entryPc' = "upload"
    /\ UNCHANGED <<now, chunkSize, storeVars, cancelVars, sweepVars,
                   partitionVars, streamVars, metaVars, entryPuts>>

\* the catch block answers nothing
PostRespondSilent ==
    /\ entryPc = "upload"
    /\ entryVia = "route"
    /\ pc = "done"
    /\ entryResp' = IF result.type = "ok"
                    THEN Answer(200, "", result, entryResp.sent + 1)
                    ELSE entryResp
    /\ entryPc' = "done"
    /\ UNCHANGED <<now, chunkSize, storeVars, coordVars, cancelVars, sweepVars,
                   partitionVars, streamVars, metaVars, entryFile, entryVia,
                   entryPuts>>

\* lines 41-64: uploadVideoInChunks returned, and the route answers 200
\* with its result, or threw, and the catch block answers 500 UPLOAD_FAILED
\* as no header was sent before
PostRespond ==
    /\ entryPc = "upload"
    /\ entryVia = "route"
    /\ pc = "done"
    /\ entryResp' = IF result.type = "ok"
                    THEN Answer(200, "", result, entryResp.sent + 1)
                    ELSE IF entryResp.sent = 0
                    THEN Answer(500, "UPLOAD_FAILED", NoResult, entryResp.sent + 1)
                    ELSE entryResp
    /\ entryPc' = "done"
    /\ UNCHANGED <<now, chunkSize, storeVars, coordVars, cancelVars, sweepVars,
                   partitionVars, streamVars, metaVars, entryFile, entryVia,
                   entryPuts>>

(***************************************************************************)
(* uploadFileToS3 (utils/s3Upload.js, lines 96-184).                       *)
(***************************************************************************)
\* lines 129-147: a large video goes to uploadVideoInChunks, every other
\* file is sent in one PutObject, which is awaited
dispatch(file) ==
    IF isLargeVideo(file)
    THEN /\ invoke(file.size)
         /\ entryPc' = "upload"
         /\ entryPuts' = entryPuts
    ELSE /\ entryPuts' = entryPuts + 1
         /\ entryPc' = "put"
         /\ UNCHANGED coordVars

\* lines 96-123: uploadFileToS3 is called with options.processImage !==
\* false or not.  A file without a buffer or one validateFile rejects makes
\* it throw; an image to be processed waits for processImage, which first
\* awaits sharp's metadata() (line 232); every other file is dispatched at
\* once.
UploadFileToS3(file, processImage) ==
    /\ entryPc = "idle"
    /\ entryVia' = "uploadFileToS3"
    /\ entryFile' = file
    /\ entryResp' = IF ~file.buffer \/ validateFile(file) # {}
                    THEN Answer(0, "Failed to upload file", NoResult, 0)
                    ELSE entryResp
    /\ IF ~file.buffer \/ validateFile(file) # {}
       THEN /\ entryPc' = "done"
            /\ entryPuts' = entryPuts
            /\ UNCHANGED coordVars
       ELSE IF startsWithImage(file.mimetype) /\ processImage
       THEN /\ entryPc' = "metadata"
            /\ entryPuts' = entryPuts
            /\ UNCHANGED coordVars
       ELSE dispatch(file)
    /\ UNCHANGED <<now, chunkSize, storeVars, cancelVars, sweepVars,
                   partitionVars, streamVars, metaVars>>

\* lines 232 and 292: metadata() answered and toBuffer() is awaited
ImageMetadataOk ==
    /\ entryPc = "metadata"
    /\ entryPc' = "toBuffer"
    /\ UNCHANGED <<now, chunkSize, storeVars, coordVars, cancelVars, sweepVars,
                   partitionVars, streamVars, metaVars, entryFile, entryVia,
                   entryPuts, entryResp>>

\* lines 292-300 and 122: toBuffer() answered, processImage returns the
\* processed buffer and the file is dispatched with it
ImageProcessed ==
    /\ entryPc = "toBuffer"
    /\ dispatch(entryFile)
    /\ UNCHANGED <<now, chunkSize, storeVars, cancelVars, sweepVars,
                   partitionVars, streamVars, metaVars, entryFile, entryVia,
                   entryResp>>

\* lines 233-236, 302-305 and 123-126: metadata() or toBuffer() threw,
\* processImage rethrows and the file is dispatched with its original buffer
ImageFail ==
    /\ entryPc \in {"metadata", "toBuffer"}
    /\ dispatch(entryFile)
    /\ UNCHANGED <<now, chunkSize, storeVars, cancelVars, sweepVars,
                   partitionVars, streamVars, metaVars, entryFile, entryVia,
                   entryResp>>

\* lines 134 and 180-183: uploadVideoInChunks returned or threw
FileUploadEnds ==
    /\ entryPc = "upload"
    /\ entryVia = "uploadFileToS3"
    /\ pc = "done"
    /\ entryResp' = IF result.type = "ok"
                    THEN Answer(0, "returned", result, 0)
                    ELSE Answer(0, "Failed to upload file", NoResult, 0)
    /\ entryPc' = "done"
    /\ UNCHANGED <<now, chunkSize, storeVars, coordVars, cancelVars, sweepVars,
                   partitionVars, streamVars, metaVars, entryFile, entryVia,
                   entryPuts>>

\* lines 147-178: PutObject succeeded; the result is returned (the duration
\* of a video is extracted first, and is 0 when that fails)
PutOk ==
    /\ entryPc = "put"
    /\ entryResp' = Answer(0, "returned", NoResult, 0)
    /\ entryPc' = "done"
    /\ UNCHANGED <<now, chunkSize, storeVars, coordVars, cancelVars, sweepVars,
                   partitionVars, streamVars, metaVars, entryFile, entryVia,
                   entryPuts>>

\* lines 147 and 180-183: PutObject threw
PutFail ==
    /\ entryPc = "put"
    /\ entryResp' = Answer(0, "Failed to upload file", NoResult, 0)
    /\ entryPc' = "done"
    /\ UNCHANGED <<now, chunkSize, storeVars, coordVars, cancelVars, sweepVars,
                   partitionVars, streamVars, metaVars, entryFile, entryVia,
                   entryPuts>>

(***************************************************************************)
(* extractVideoMetadata (utils/videoMetadata.js, lines 212-305).           *)
(***************************************************************************)
\* lines 212-221: the call; with fileInfo = null it ends here, rejected
ExtractVideoMetadata(input) ==
    /\ metaPc = "idle"
    /\ metaIn' = input
    /\ metaOut' = IF input.fileInfo.isNull THEN errorRethrown ELSE NoMetadata
    /\ metaPc' = IF input.fileInfo.isNull THEN "done" ELSE "method1"
    /\ UNCHANGED <<now, chunkSize, storeVars, coordVars, cancelVars, sweepVars,
                   partitionVars, streamVars, entryVars>>

\* lines 222-240: the MP4 parsing, for a file that is MP4 by mimetype or name
Method1 ==
    /\ metaPc = "method1"
    /\ IF throwsAt(metaIn.fileInfo, "video/mp4")
       THEN /\ metaOut' = errorFallback
            /\ metaPc' = "done"
       ELSE /\ metaOut' =
                 IF /\ isMp4(metaIn.fileInfo)
                    /\ extractVideoDuration(metaIn.videoBuffer) > 0
                 THEN Metadata(extractVideoDuration(metaIn.videoBuffer),
                               "mp4_parsing")
                 ELSE metaOut
            /\ metaPc' = "method2"
    /\ UNCHANGED <<now, chunkSize, storeVars, coordVars, cancelVars, sweepVars,
                   partitionVars, streamVars, entryVars, metaIn>>

\* lines 242-256: the WebM parsing, when there is no duration yet, for a
\* file that is WebM by mimetype or name
Method2 ==
    /\ metaPc = "method2"
    /\ IF metaOut.duration = 0 /\ throwsAt(metaIn.fileInfo, "video/webm")
       THEN /\ metaOut' = errorFallback
            /\ metaPc' = "done"
       ELSE /\ metaOut' =
                 IF /\ metaOut.duration = 0
                    /\ isWebm(metaIn.fileInfo)
                    /\ extractWebMDuration(metaIn.videoBuffer) > 0
                 THEN Metadata(extractWebMDuration(metaIn.videoBuffer),
                               "webm_parsing")
                 ELSE metaOut
            /\ metaPc' = "method3"
    /\ UNCHANGED <<now, chunkSize, storeVars, coordVars, cancelVars, sweepVars,
                   partitionVars, streamVars, entryVars, metaIn>>

\* lines 258-263: the estimate from the size, when there is no duration yet
Method3 ==
    /\ metaPc = "method3"
    /\ metaOut' =
         IF metaOut.duration = 0
         THEN Metadata(estimateDurationFromSize(metaIn.fileInfo.size,
                                                metaIn.fileInfo.mimetype),
                       "size_estimation")
         ELSE metaOut
    /\ metaPc' = "final"
    /\ UNCHANGED <<now, chunkSize, storeVars, coordVars, cancelVars, sweepVars,
                   partitionVars, streamVars, entryVars, metaIn>>

\* lines 265-287: the default for a duration that is not positive (NaN <= 0
\* is false); the metadata is returned
FinalValidation ==
    /\ metaPc = "final"
    /\ metaOut' = IF metaOut.duration # NaN /\ metaOut.duration <= 0
                  THEN Metadata(180, "default_fallback")
                  ELSE metaOut
    /\ metaPc' = "done"
    /\ UNCHANGED <<now, chunkSize, storeVars, coordVars, cancelVars, sweepVars,
                   partitionVars, streamVars, entryVars, metaIn>>

(***************************************************************************)
(* Time passes.                                                            *)
(***************************************************************************)
Tick ==
    /\ now + ClockStep <= MaxClock
    /\ now' = now + ClockStep
    /\ UNCHANGED <<chunkSize, storeVars, coordVars, cancelVars, sweepVars,
                   otherVars>>

(***************************************************************************)
(* The specification of the upload service.                                *)
(***************************************************************************)
\* what extractVideoMetadata returns to the coordinator: a positive
\* duration, or NaN for a mimetype that names a member of Object.prototype
Durations == (1..MaxDuration) \cup {NaN}

Next ==
    \/ \E size \in 0..MaxSmallSize : StartUpload(size)
    \/ CreateOk
    \/ CreateFail
    \/ Save1Ok
    \/ Save1Fail
    \/ \E pn \in 1..MaxSize : PartOk(pn)
    \/ \E pn \in 1..MaxSize : PartFail(pn)
    \/ \E pn \in 1..MaxSize : PartRetry(pn)
    \/ CompleteOk
    \/ CompleteFail
    \/ Save2Ok
    \/ Save2Fail
    \/ \E d \in Durations : ExtractOk(d)
    \/ ExtractFail
    \/ AbortOk
    \/ AbortFail
    \/ \E vid \in VideoIds : CancelFind(vid)
    \/ \E vid \in VideoIds : CancelFindFail(vid)
    \/ CancelRemoveOk
    \/ CancelRemoveFail
    \/ SweepCall
    \/ SweepFind
    \/ SweepFindFail
    \/ SweepAbortOk
    \/ SweepAbortFail
    \/ SweepDeleteOk
    \/ SweepDeleteFail
    \/ Tick

Spec == Init /\ [][Next]_vars

(***************************************************************************)
(* uploadVideoInChunks alone, on larger files.                             *)
(***************************************************************************)
NextUpload ==
    \/ \E size \in 0..MaxSize : StartUpload(size)
    \/ CreateOk
    \/ CreateFail
    \/ Save1Ok
    \/ Save1Fail
    \/ \E pn \in 1..MaxSize : PartOk(pn)
    \/ \E pn \in 1..MaxSize : PartFail(pn)
    \/ \E pn \in 1..MaxSize : PartRetry(pn)
    \/ CompleteOk
    \/ CompleteFail
    \/ Save2Ok
    \/ Save2Fail
    \/ \E d \in Durations : ExtractOk(d)
    \/ ExtractFail
    \/ AbortOk
    \/ AbortFail

SpecUpload == Init /\ [][NextUpload]_vars

(***************************************************************************)
(* The partition alone, on every buffer: the loop of lines 63-72 cuts the  *)
(* next chunk.                                                             *)
(***************************************************************************)
RECURSIVE Buffers(_)
Buffers(n) ==
    IF n = 0 THEN {<< >>}
    ELSE Buffers(n - 1) \cup
         {Append(b, x) : b \in {c \in Buffers(n - 1) : Len(c) = n - 1},
                         x \in 0..MaxByte}

InitPartition ==
    /\ chunkSize \in 1..MaxChunkSize
    /\ InitCoordinator
    /\ InitStore
    /\ InitCancel
    /\ InitSweep
    /\ InitStreamIdle
    /\ InitEntryIdle
    /\ InitMetaIdle
    /\ buf \in Buffers(MaxLen)
    /\ chunks = << >>

CutChunk ==
    /\ Len(chunks) < totalChunks(Len(buf), chunkSize)
    /\ chunks' = Append(chunks, chunkOf(buf, Len(chunks), chunkSize))
    /\ UNCHANGED <<now, chunkSize, storeVars, coordVars, cancelVars, sweepVars,
                   streamVars, entryVars, metaVars, buf>>

NextPartition == CutChunk

SpecPartition == InitPartition /\ [][NextPartition]_vars

(***************************************************************************)
(* The cleanups on a store that earlier uploads have filled, while the     *)
(* clock runs, uploads are cancelled and the last upload is still waiting  *)
(* for CompleteMultipartUpload.  Each earlier upload ended complete, or    *)
(* failed or crashed and left its document.                                *)
(***************************************************************************)
StoredIds == 1..MaxStored

\* the clock at the start: uploads of 25 h, 24 h and 1 h of age are in the
\* store
SweepTime == StaleHours + 1
CreatedAts == {SweepTime - (StaleHours + 1), SweepTime - StaleHours,
               SweepTime - 1}

\* the documents upload v may have left
StoredDocs(v) ==
    LET created(t) == newChunkedVideo(v, generateUniqueFilename(v), v,
                                      MaxSmallSize, t)
    IN  {created(t) : t \in CreatedAts} \cup
        {markComplete(created(t), getPublicUrl(generateUniqueFilename(v)), t) :
           t \in CreatedAts}

\* the collections earlier uploads may have left: a later upload was not
\* created before an earlier one
Stores ==
    UNION {{st \in [D -> UNION {StoredDocs(v) : v \in D}] :
              /\ \A v \in D : st[v].videoId = v
              /\ \A v, w \in D :
                    v < w => st[v].createdAt <= st[w].createdAt} :
           D \in SUBSET StoredIds}

\* uploadVideoInChunks of upload v after its only batch (lines 36-91): every
\* part was accepted at the first attempt and CompleteMultipartUpload is
\* awaited
AwaitsComplete(v) ==
    LET n == totalChunks(MaxSmallSize, chunkSize)
        manifest == [pn \in 1..n |-> [ETag |-> ETagOf(pn, 1), PartNumber |-> pn]]
    IN  /\ pc = "complete"
        /\ cur = v
        /\ fileSize = MaxSmallSize
        /\ uploadId = v
        /\ key = generateUniqueFilename(v)
        /\ chunkedVideo = sessions[v]
        /\ batchI = 0
        /\ parts = manifest
        /\ part = [pn \in 1..n |-> [st |-> "ok", retries |-> 0,
                                    etag |-> ETagOf(pn, 1), delay |-> 0]]
        /\ completeCalls = <<manifest>>
        /\ error = ""
        /\ result = NoResult
        /\ failures = {}

\* the abort request of the catch block of upload v (lines 131-141)
abortOf(v) == AbortCall("coordinator", v, generateUniqueFilename(v))

\* What upload v has left, given its document and its multipart upload.
\* The upload of a complete document was completed and no abort was sent
\* (lines 91-127).  An upload that CreateMultipartUpload did not create has
\* sent no abort (line 131).  An aborted upload was aborted by the catch
\* block (line 141).  For an open or a completed upload without a complete
\* document the abort was sent and failed (lines 141-145) or the process
\* stopped before the catch block.  The document of an upload that was not
\* completed is missing when the first save failed (line 51) or a DELETE
\* request removed it.
leftBy(v, store, m, sent) ==
    LET stored == v \in DOMAIN store
        aborting == abortOf(v) \in sent
    IN  /\ (stored /\ store[v].isComplete) => (m[v] = "completed" /\ ~aborting)
        /\ stored => m[v] # "none"
        /\ m[v] = "none" => ~aborting
        /\ m[v] = "aborted" => aborting

\* The upload with the highest id may still run.
InitJanitor ==
    /\ chunkSize = MaxSmallChunk
    /\ InitCancel
    /\ InitSweep
    /\ InitStreamIdle
    /\ InitEntryIdle
    /\ InitMetaIdle
    /\ now = SweepTime
    /\ sessions \in Stores
    /\ mpu \in [StoredIds -> {"none", "open", "aborted", "completed"}]
    /\ aborts \in SUBSET {abortOf(v) : v \in StoredIds}
    /\ \A v \in StoredIds : leftBy(v, sessions, mpu, aborts)
    /\ \/ InitCoordinator
       \/ /\ MaxStored \in DOMAIN sessions
          /\ ~sessions[MaxStored].isComplete
          /\ mpu[MaxStored] = "open"
          /\ abortOf(MaxStored) \notin aborts
          /\ AwaitsComplete(MaxStored)
    /\ buf = << >>
    /\ chunks = << >>

\* DELETE /:videoId for the last upload, requested once
CancelLast ==
    /\ cancelResp.videoId = NULL
    /\ CancelFind(MaxStored)

\* The running upload goes on to its end, the client cancels the last
\* upload, the clock advances and a cleanup that was called goes on.
NextStored ==
    \/ CompleteOk
    \/ CompleteFail
    \/ Save2Ok
    \/ Save2Fail
    \/ ExtractOk(MaxDuration)
    \/ ExtractFail
    \/ AbortOk
    \/ AbortFail
    \/ CancelLast
    \/ CancelRemoveOk
    \/ CancelRemoveFail
    \/ SweepFind
    \/ SweepFindFail
    \/ SweepAbortOk
    \/ SweepAbortFail
    \/ SweepDeleteOk
    \/ SweepDeleteFail
    \/ Tick

\* POST /cleanup is called at any time
NextJanitor ==
    \/ NextStored
    \/ SweepCall

SpecJanitor == InitJanitor /\ [][NextJanitor]_vars

\* ChunkedVideo.cleanupOldUploads, the static method of the model that no
\* route calls, is called at any time instead
NextOldUploads ==
    \/ NextStored
    \/ OldCall
    \/ OldFind
    \/ OldFindFail

SpecOldUploads == InitJanitor /\ [][NextOldUploads]_vars

(***************************************************************************)
(* The streaming routes alone, on a store that holds one upload and one    *)
(* S3 object.                                                              *)
(***************************************************************************)
\* byte offsets: the first ones, and those around the limit of 2 MiB
Offsets == (0..MaxOffset) \cup {maxRangeSize + d : d \in (0 - 1)..MaxOffset}

\* sizes of a video: a few bytes, about 2 MiB, more than twice 2 MiB
Totals == (1..(MaxOffset + 1)) \cup {maxRangeSize + d : d \in 0..MaxOffset}
            \cup {2 * maxRangeSize + MaxOffset}

\* the header "bytes=s-e", and "bytes=s-" when e is no number
RangeText(s, e) ==
    <<BytesEq>> \o Digits(s) \o <<Dash>> \o (IF e = NaN THEN << >> ELSE Digits(e))

\* the headers a client may send: ranges, and texts that are none
RangeTexts ==
    {RangeText(s, e) : s \in Offsets, e \in Offsets \cup {NaN}}
      \cup {<<BytesEq, Dash>> \o Digits(e) : e \in Offsets}
      \cup {<<BytesEq>> \o Digits(s) : s \in Offsets}
      \cup {Digits(s) \o <<Dash>> \o Digits(s + 1) : s \in Offsets}
      \cup {<<BytesEq, Letter>>, <<BytesEq, Letter, Dash, 1>>,
            <<BytesEq, 1, Letter, Dash, 2>>, << >>}
      \cup {<<BytesEq, Space, 1, Dash, 2>>, <<BytesEq, 1, Dash, Space, 2>>,
            <<BytesEq, Plus, 1, Dash, 2>>, <<BytesEq, Space, Dash, 1>>}

Requests(route) ==
    {Request(route, 1, TRUE, r) : r \in RangeTexts}
      \cup {Request(route, 1, FALSE, << >>)}

\* the upload in the store: none, an incomplete one, a complete one
StreamStores ==
    LET created(size) == newChunkedVideo(1, generateUniqueFilename(1), 1, size, 0)
    IN  {<< >>, <<created(1)>>} \cup
        {<<markComplete(created(size),
                        getPublicUrl(generateUniqueFilename(1)), 0)>> :
           size \in Totals}

InitStream ==
    /\ chunkSize = MaxChunkSize
    /\ InitCoordinator
    /\ InitCancel
    /\ InitSweep
    /\ now = 0
    /\ sessions \in StreamStores
    /\ mpu = [u \in VideoIds |->
                IF u \notin DOMAIN sessions THEN "none"
                ELSE IF sessions[u].isComplete THEN "completed" ELSE "open"]
    /\ aborts = {}
    /\ streamPc = "idle"
    /\ streamReq = NoRequest
    /\ streamObj \in Totals \cup {0, Undefined}
    /\ streamGot = << >>
    /\ streamResp = NoResponse
    /\ InitEntryIdle
    /\ InitMetaIdle
    /\ buf = << >>
    /\ chunks = << >>

\* the lengths of the next chunk of a body: one byte while fewer than
\* MaxOffset bytes were written, or all that is left
chunkLens ==
    IF streamPc # "body" THEN {}
    ELSE {n \in {1, spanLen(streamGot[1])} :
            /\ n >= 1
            /\ n = spanLen(streamGot[1]) \/ bytesIn(streamResp.body) < MaxOffset}

NextStream ==
    \/ \E req \in Requests("stream") : StreamVideo(req)
    \/ \E req \in Requests("stream") : StreamVideoFail(req)
    \/ \E req \in Requests("direct"), found \in {"found", "missing", "invalid"} :
         DirectVideo(req, found)
    \/ \E req \in Requests("direct") : DirectVideoFail(req)
    \/ DirectHeadOk
    \/ DirectHeadFail
    \/ \E withBody \in BOOLEAN : DirectGetOk(withBody)
    \/ DirectGetFail
    \/ \E n \in chunkLens : DirectBodyChunk(n)
    \/ DirectBodyOk
    \/ DirectBodyFail

SpecStream == InitStream /\ [][NextStream]_vars

\* One request of each kind, with "bytes=0-" or without a Range header,
\* followed to its end.  Every await of the streaming routes returns, with a
\* value or with an error: a request that can take a step takes one.
LiveRequests(route) ==
    {Request(route, 1, TRUE, RangeText(0, NaN)),
     Request(route, 1, FALSE, << >>)}

NextStreamLive ==
    \/ \E req \in LiveRequests("stream") : StreamVideo(req)
    \/ \E req \in LiveRequests("stream") : StreamVideoFail(req)
    \/ \E req \in LiveRequests("direct"),
          found \in {"found", "missing", "invalid"} : DirectVideo(req, found)
    \/ \E req \in LiveRequests("direct") : DirectVideoFail(req)
    \/ DirectHeadOk
    \/ DirectHeadFail
    \/ \E withBody \in BOOLEAN : DirectGetOk(withBody)
    \/ DirectGetFail
    \/ \E n \in chunkLens : DirectBodyChunk(n)
    \/ DirectBodyOk
    \/ DirectBodyFail

SpecStreamLive ==
    InitStream /\ [][NextStreamLive]_vars /\ WF_vars(NextStreamLive)

(***************************************************************************)
(* The upload entry points alone: one file comes in through POST /upload   *)
(* or through uploadFileToS3.                                              *)
(***************************************************************************)
\* sizes around each limit and around the chunking threshold
FileSizes == {1 * MiB, FILE_SIZE_LIMITS.IMAGE + MiB,
              FILE_SIZE_LIMITS.DOCUMENT + MiB, CHUNK_THRESHOLD,
              CHUNK_THRESHOLD + MiB, FILE_SIZE_LIMITS.VIDEO + MiB}

Files ==
    {File(m, x, sz) : m \in MimeTypes, x \in Extensions, sz \in FileSizes}
      \cup {NoFile}

\* the files sent to POST /upload: those of at most MaxParts chunks
RouteFiles ==
    {file \in Files : file.size <= MaxParts * CHUNK_SIZE}

InitEntry ==
    /\ chunkSize = CHUNK_SIZE
    /\ InitCoordinator
    /\ InitStore
    /\ InitCancel
    /\ InitSweep
    /\ InitStreamIdle
    /\ InitEntryIdle
    /\ InitMetaIdle
    /\ buf = << >>
    /\ chunks = << >>

NextEntry ==
    \/ \E file \in RouteFiles : PostUpload(file)
    \/ PostRespond
    \/ \E file \in Files, processImage \in BOOLEAN :
         UploadFileToS3(file, processImage)
    \/ ImageMetadataOk
    \/ ImageProcessed
    \/ ImageFail
    \/ FileUploadEnds
    \/ PutOk
    \/ PutFail
    \/ CreateOk
    \/ CreateFail
    \/ Save1Ok
    \/ Save1Fail
    \/ \E pn \in DOMAIN part : PartOk(pn)
    \/ \E pn \in DOMAIN part : PartFail(pn)
    \/ \E pn \in DOMAIN part : PartRetry(pn)
    \/ CompleteOk
    \/ CompleteFail
    \/ Save2Ok
    \/ Save2Fail
    \/ \E d \in Durations : ExtractOk(d)
    \/ ExtractFail
    \/ AbortOk
    \/ AbortFail

SpecEntry == InitEntry /\ [][NextEntry]_vars

(***************************************************************************)
(* The metadata extractor alone: one call of extractVideoMetadata.         *)
(***************************************************************************)
Zeros(n) == [i \in 1..n |-> 0]

\* buffer.writeUInt32BE(n)
UInt32BE(n) ==
    <<n \div 16777216, (n \div 65536) % 256, (n \div 256) % 256, n % 256>>

\* the 108 bytes of an mvhd atom as box describes it, after the bytes in
\* front of it
MvhdBytes(box) ==
    (IF box.decoy THEN mvhd ELSE << >>)
      \o Zeros(box.pre) \o UInt32BE(box.atomSize) \o mvhd
      \o <<box.version, 0, 0, 0>>
      \o (IF box.version = 1
          THEN Zeros(16) \o UInt32BE(box.timeScale)
                 \o UInt32BE(box.durationHigh) \o UInt32BE(box.durationLow)
                 \o Zeros(68)
          ELSE Zeros(8) \o UInt32BE(box.timeScale)
                 \o UInt32BE(box.durationLow) \o Zeros(80))

Boxes ==
    {Box(pre, atomSize, version, timeScale, high, low, FALSE) :
       pre \in {0, 4}, atomSize \in {107, 108, 109}, version \in {0, 1, 2},
       timeScale \in {0, 600, 1000}, high \in {0, 1},
       low \in {0, 499, 36000, 90000}}
      \cup {Box(0, 108, version, 1000, 0, low, decoy) :
              version \in {0, 1}, low \in {500, 1499, 1500},
              decoy \in BOOLEAN}

\* the 8 bytes of a double with the low 32 bits of its mantissa 0
DoubleBE(negative, expo, m20) ==
    <<(IF negative THEN 128 ELSE 0) + expo \div 16,
      (expo % 16) * 16 + m20 \div 65536, (m20 \div 256) % 256, m20 % 256,
      0, 0, 0, 0>>

\* a Duration element after pre bytes, in a buffer of the given length
EbmlBytes(pre, double, length) ==
    SubSeq(Zeros(pre) \o durationElementId \o double \o Zeros(length),
           1, length)

\* 60000, 499, 500, 86400000 and 86399936 milliseconds, -60000, 0.5,
\* zero, a subnormal, infinity, NaN and 2^27
Doubles ==
    {DoubleBE(FALSE, 1038, 871424), DoubleBE(FALSE, 1031, 995328),
     DoubleBE(FALSE, 1031, 999424), DoubleBE(FALSE, 1049, 301424),
     DoubleBE(FALSE, 1049, 301423), DoubleBE(TRUE, 1038, 871424),
     DoubleBE(FALSE, 1022, 0), DoubleBE(FALSE, 0, 0), DoubleBE(FALSE, 0, 1),
     DoubleBE(FALSE, 2047, 0), DoubleBE(FALSE, 2047, 1),
     DoubleBE(FALSE, 1050, 0)}

\* buffers with a Duration element: cut short, too short to be searched,
\* long enough, and one with a second element after a negative one
EbmlBuffers ==
    {Buffer(EbmlBytes(0, double, length)) :
       double \in Doubles, length \in {9, 10, 11}}
      \cup {Buffer(EbmlBytes(3, double, 24)) : double \in Doubles}
      \cup {Buffer(EbmlBytes(0, DoubleBE(TRUE, 1038, 871424), 10)
                     \o EbmlBytes(0, DoubleBE(FALSE, 1038, 871424), 12))}

\* buffers without an atom or element, and what is no Buffer
PlainBuffers ==
    {Buffer(<< >>), Buffer(Zeros(16)), Buffer(mvhd),
     Buffer(SubSeq(MvhdBytes(Box(0, 108, 0, 1000, 0, 90000, FALSE)), 1, 24)),
     NotABuffer}

FileInfos ==
    {FileInfo(ext, size, mimetype) :
       ext \in {".mp4", ".webm", ".mov", "", NotAString},
       size \in {0, 187499, 6000000, 1800250000},
       mimetype \in {"video/mp4", "video/webm", "video/avi",
                     "video/quicktime", "video/x-msvideo", "constructor",
                     ""}}

\* the hints that go with the buffers that hold an atom or an element
ContainerInfos ==
    {FileInfo(ext, 6000000, mimetype) :
       ext \in {".mp4", ".webm", ".mov"},
       mimetype \in {"video/mp4", "video/webm", "video/quicktime"}}

MetaInputs ==
    {[videoBuffer |-> Buffer(MvhdBytes(box)), fileInfo |-> info, box |-> box] :
       box \in Boxes, info \in ContainerInfos}
      \cup {[videoBuffer |-> v, fileInfo |-> info, box |-> NoBox] :
              v \in EbmlBuffers, info \in ContainerInfos}
      \cup {[videoBuffer |-> v, fileInfo |-> info, box |-> NoBox] :
              v \in PlainBuffers, info \in FileInfos \cup {NullFileInfo}}

InitMeta ==
    /\ chunkSize = MaxChunkSize
    /\ InitCoordinator
    /\ InitStore
    /\ InitCancel
    /\ InitSweep
    /\ InitStreamIdle
    /\ InitEntryIdle
    /\ InitMetaIdle
    /\ buf = << >>
    /\ chunks = << >>

NextMeta ==
    \/ /\ metaPc = "idle"
       /\ \E input \in MetaInputs : ExtractVideoMetadata(input)
    \/ Method1
    \/ Method2
    \/ Method3
    \/ FinalValidation

SpecMeta == InitMeta /\ [][NextMeta]_vars

(***************************************************************************)
(* Properties.                                                             *)
(***************************************************************************)
\* ceil(s / c), computed without totalChunks
Ceil(s, c) == CHOOSE n \in 0..s : n * c >= s /\ (n = 0 \/ (n - 1) * c < s)

RECURSIVE Flatten(_)
Flatten(ss) == IF ss = << >> THEN << >> ELSE Head(ss) \o Flatten(Tail(ss))

\* UploadPart requests sent so far for part pn
attempts(pn) ==
    CASE part[pn].st = "none" -> 0
      [] part[pn].st \in {"inflight", "ok"} -> part[pn].retries + 1
      [] OTHER -> part[pn].retries

coordinatorAbort == AbortCall("coordinator", uploadId, key)

\* C1: when an UploadPart request has been sent for the upload, the
\* document carrying its uploadId is in the collection.
C1_SessionSavedBeforeFirstPart ==
    (\E pn \in DOMAIN part : attempts(pn) > 0) =>
        /\ uploadId # NULL
        /\ cur \in DOMAIN sessions
        /\ sessions[cur].uploadId = uploadId

C1_Witness ==
    /\ \E pn \in DOMAIN part : part[pn].st = "inflight" /\ part[pn].retries = 0
    /\ cur \in DOMAIN sessions
    /\ sessions[cur].uploadId = uploadId

\* C2: every stored document has an uploadId, and has a finalVideoUrl
\* exactly when it is complete.
C2_SessionInvariant ==
    \A v \in DOMAIN sessions :
        /\ sessions[v].uploadId # NULL
        /\ (sessions[v].finalVideoUrl # NULL) <=> sessions[v].isComplete

C2_Witness ==
    \E v \in DOMAIN sessions :
        sessions[v].isComplete /\ sessions[v].finalVideoUrl # NULL

\* C3: a document is complete, stored or in memory, only when the object
\* store has completed its multipart upload.
C3_CompleteOnlyAfterStoreCompleted ==
    /\ \A v \in DOMAIN sessions :
          sessions[v].isComplete => mpu[sessions[v].uploadId] = "completed"
    /\ chunkedVideo.isComplete => mpu[chunkedVideo.uploadId] = "completed"

C3_Witness ==
    /\ cur \in DOMAIN sessions
    /\ sessions[cur].isComplete
    /\ mpu[sessions[cur].uploadId] = "completed"

\* C4: once a part has used up its retries, the abort of the upload has been
\* sent, no CompleteMultipartUpload is ever sent, and the caller gets an error.
C4_ExhaustedPartAborts ==
    (\E pn \in DOMAIN part : part[pn].st = "failed") =>
        /\ coordinatorAbort \in aborts
        /\ completeCalls = << >>
        /\ pc \in {"abort", "done"}
        /\ pc = "done" => result.type = "error"

C4_Witness ==
    /\ pc = "done"
    /\ \E pn \in DOMAIN part : part[pn].st = "failed"
    /\ result.type = "error"
    /\ coordinatorAbort \in aborts

\* C5: when no part failed more than twice, one part failed exactly twice
\* and no other call failed, the upload succeeds and the manifest names that
\* part once.
C5_ThirdAttemptSucceeds ==
    ( /\ pc = "done"
      /\ failures = {}
      /\ \A pn \in DOMAIN part : part[pn].retries <= 2
      /\ \E pn \in DOMAIN part : part[pn].retries = 2 ) =>
        /\ result.type = "ok"
        /\ Len(completeCalls) = 1
        /\ \A pn \in DOMAIN part :
              Cardinality({i \in 1..Len(completeCalls[1]) :
                              completeCalls[1][i].PartNumber = pn}) = 1

C5_Witness ==
    /\ pc = "done"
    /\ result.type = "ok"
    /\ \E pn \in DOMAIN part : part[pn].st = "ok" /\ part[pn].retries = 2

\* C6: after a failure that follows the creation of the upload, the abort
\* with the uploadId and key of the upload has been sent; the error the
\* caller gets is the error of the upload, never the error of the abort.
C6_AbortBeforeErrorPropagates ==
    /\ ( \/ failures \cap {"save", "complete", "finalize"} # {}
         \/ \E pn \in DOMAIN part : part[pn].st = "failed" ) =>
            /\ coordinatorAbort \in aborts
            /\ pc \in {"abort", "done"}
    /\ (result.type = "error" /\ uploadId # NULL) =>
            /\ coordinatorAbort \in aborts
            /\ result.cause = error
            /\ result.cause \in {"save", "part", "complete", "finalize"}
            /\ result.cause # "part" => result.cause \in failures

C6_Witness ==
    /\ pc = "done"
    /\ "abort" \in failures
    /\ result.type = "error"
    /\ result.cause = "finalize"
    /\ coordinatorAbort \in aborts

\* C7: every manifest sent lists the parts 1..ceil(S/C) in this order, each
\* with the ETag the object store returned for its successful UploadPart.
C7_ManifestComplete ==
    \A c \in 1..Len(completeCalls) :
        LET m == completeCalls[c]
        IN  /\ Len(m) = Ceil(fileSize, chunkSize)
            /\ \A k \in 1..Len(m) :
                  /\ m[k].PartNumber = k
                  /\ part[k].st = "ok"
                  /\ m[k].ETag = ETagOf(k, part[k].retries + 1)

C7_Witness ==
    /\ Len(completeCalls) = 1
    /\ Len(completeCalls[1]) > concurrencyLimit
    /\ \E k \in DOMAIN part : part[k].retries > 0

\* C8: chunk k is the bytes (k-1)*C .. min(k*C, S)-1 of the buffer, and the
\* ceil(S/C) chunks of the finished partition concatenate to the buffer.
C8_PartitionReassembles ==
    /\ \A k \in 1..Len(chunks) :
          LET lo == (k - 1) * chunkSize
              hi == Min(k * chunkSize, Len(buf))
          IN  chunks[k] = [i \in 1..(hi - lo) |-> buf[lo + i]]
    /\ Len(chunks) = totalChunks(Len(buf), chunkSize) =>
          /\ Len(chunks) = Ceil(Len(buf), chunkSize)
          /\ Flatten(chunks) = buf

C8_Witness ==
    /\ Len(buf) = 3
    /\ chunkSize = 2
    /\ Len(chunks) = 2
    /\ Flatten(chunks) = buf

\* C9: after a cancel that answered 200, an AbortMultipartUpload for the
\* uploadId and key of the cancelled document has been sent.
C9_CancelIssuesAbort ==
    (cancelPc = "idle" /\ cancelResp.status = 200) =>
        /\ cancelDoc.videoId \notin DOMAIN sessions
        /\ \E a \in aborts :
              a.uploadId = cancelDoc.uploadId /\ a.key = cancelDoc.s3Key

\* a cancel request that found no document has just been answered
cancelOfMissing ==
    /\ cancelPc = "idle"
    /\ cancelPc' = "idle"
    /\ cancelVars' # cancelVars
    /\ cancelDoc' = NoDoc
    /\ cancelResp'.status # 500

\* C10 as stated: the cancel of a missing session is answered as a success
\* (200) and leaves the collection unchanged.
C10_MissingIsSuccess ==
    [][cancelOfMissing =>
          /\ cancelResp'.status = 200
          /\ sessions' = sessions]_vars

\* C10 amended: the cancel of a missing session is answered 404 and changes
\* neither the collection nor the object store.
C10_MissingIsNotFound ==
    [][cancelOfMissing =>
          /\ cancelResp'.status = 404
          /\ cancelResp'.videoId \notin DOMAIN sessions
          /\ UNCHANGED <<sessions, mpu, aborts>>]_vars

\* a second cancel of a session that the first cancel deleted
C10_Witness ==
    /\ cancelPc = "idle"
    /\ cancelResp.status = 404
    /\ cancelDoc = NoDoc
    /\ cancelResp.videoId \notin DOMAIN sessions
    /\ mpu[cancelResp.videoId] = "open"

\* C11: a cancel request for a session whose isComplete is true is answered
\* with status 400 at once: the route awaits nothing more, no
\* AbortMultipartUpload is issued, and the session record, the multipart
\* uploads and the abort log are left as they were.
C11_CompleteCancelRejected ==
    [][(cancelPc = "idle" /\ cancelResp' # cancelResp /\ cancelDoc'.isComplete)
          => /\ cancelResp'.status = 400
             /\ cancelPc' = "idle"
             /\ cancelResp'.videoId \in DOMAIN sessions'
             /\ sessions' = sessions
             /\ mpu' = mpu
             /\ aborts' = aborts]_vars

\* a complete session was cancelled, got 400 and is still stored
C11_Witness ==
    /\ cancelResp.status = 400
    /\ cancelDoc.isComplete
    /\ cancelDoc.videoId \in DOMAIN sessions
    /\ sessions[cancelDoc.videoId] = cancelDoc
    /\ mpu[cancelDoc.uploadId] = "completed"

\* the stored sessions that are incomplete and older than 24 hours
staleIds == {v \in DOMAIN sessions :
               /\ sessions[v].isComplete = FALSE
               /\ now - sessions[v].createdAt > 24}

\* a step of a cleanup, as opposed to one of an upload, of a cancel or of
\* the clock
cleanupStep == <<sweepPc, sweepQueue, oldPc>>' # <<sweepPc, sweepQueue, oldPc>>

C13_FailedAbortSkipped ==
    [][(sweepPc = "abort" /\ sweepQueue' # sweepQueue)
          => LET upload == Head(sweepQueue)
                 rest == Tail(sweepQueue)
             IN  /\ sessions' = sessions
                 /\ mpu' = mpu
                 /\ sweepQueue' = rest
                 /\ \A i \in 1..Len(sweepQueue') :
                       sweepQueue'[i].videoId # upload.videoId
                 /\ IF rest = << >>
                    THEN sweepPc' = "idle"
                    ELSE /\ sweepPc' = "abort"
                         /\ AbortCall("janitor", rest[1].uploadId,
                                      rest[1].s3Key) \in aborts']_vars

\* two uploads of 25 hours were selected: the abort of the first was sent
\* and did not succeed, its document is still stored and is no longer in
\* the loop; the second upload has been aborted by the same cleanup, which
\* now deletes its document
C13_Witness ==
    /\ now = SweepTime
    /\ sweepPc = "delete"
    /\ DOMAIN sessions = {1, 2}
    /\ sweepQueue = <<sessions[2]>>
    /\ ~sessions[1].isComplete
    /\ now - sessions[1].createdAt > 24
    /\ mpu[1] = "open"
    /\ mpu[2] = "aborted"
    /\ aborts = {AbortCall("janitor", 1, generateUniqueFilename(1)),
                 AbortCall("janitor", 2, generateUniqueFilename(2))}

\* C14 as claimed: the number cleanupOldUploads returns is the number of
\* uploads its cleanup reclaimed, that is, aborted and deleted; an upload
\* that was skipped because its abort failed is not counted.
C14_ReturnsReclaimed ==
    [][(oldPc = "sweep" /\ oldPc' = "idle")
          => oldRet' = Cardinality({i \in 1..Len(oldUploads) :
                          oldUploads[i].videoId \notin DOMAIN sessions'})]_vars

\* C14: the query of cleanupOldUploads answers with the stored documents
\* that are incomplete and were created more than 24 hours before the call;
\* the number the call returns is the number of these documents, whether
\* the cleanup that follows reclaimed or skipped them, and 0 when the query
\* found none or failed.
C14_ReturnsFound ==
    [][/\ (oldPc = "find" /\ oldPc' = "sweep")
            => /\ {oldUploads'[i].videoId : i \in 1..Len(oldUploads')} =
                     {v \in DOMAIN sessions :
                        /\ sessions[v].isComplete = FALSE
                        /\ oldAt - sessions[v].createdAt > 24}
               /\ oldUploads' # << >>
               /\ oldRet' = NoReturn
       /\ (oldPc = "sweep" /\ oldPc' = "sweep") => oldUploads' = oldUploads
       /\ (oldPc = "sweep" /\ oldPc' = "idle")
            => /\ oldRet' = Len(oldUploads)
               /\ oldRet' = Cardinality({oldUploads[i].videoId :
                                           i \in 1..Len(oldUploads)})
               /\ oldRet' >= Cardinality({i \in 1..Len(oldUploads) :
                              oldUploads[i].videoId \notin DOMAIN sessions'})
       /\ (oldPc = "find" /\ oldPc' = "idle") => oldRet' = 0]_vars

\* cleanupOldUploads returned 1 for the only upload there ever was, which is
\* still stored, its multipart upload open, because the abort failed
C14_Witness ==
    /\ oldPc = "idle"
    /\ sweepPc = "idle"
    /\ oldRet = 1
    /\ DOMAIN sessions = {1}
    /\ ~sessions[1].isComplete
    /\ mpu = [u \in StoredIds |-> IF u = 1 THEN "open" ELSE "none"]
    /\ aborts = {AbortCall("janitor", 1, generateUniqueFilename(1))}

\* the size of the video a streaming request addresses
servedSize ==
    IF streamReq.route = "stream" THEN sessions[streamReq.id].totalSize
    ELSE streamObj

\* the bytes from..to, written in order and without a gap
RECURSIVE isRun(_, _, _)
isRun(spans, from, to) ==
    IF spans = << >> THEN from = to + 1
    ELSE /\ Head(spans).from = from
         /\ Head(spans).from <= Head(spans).to
         /\ Head(spans).to <= to
         /\ isRun(Tail(spans), Head(spans).to + 1, to)

\* C15: a 206 response to "bytes=s-e" or "bytes=s-", with 0 <= s < totalSize
\* and s <= e, advertises Content-Range bytes s-E/totalSize and
\* Content-Length E - s + 1, where E is the least of e (totalSize - 1
\* without e), s + 2 MiB - 1 and totalSize - 1.
C15_ClampedRange ==
    \A s \in Offsets, e \in Offsets \cup {NaN} :
      (/\ streamResp.status = 206
       /\ hasRange(streamReq)
       /\ streamReq.range = RangeText(s, e)
       /\ s < servedSize
       /\ e # NaN => s <= e)
        => LET requested == IF e = NaN THEN servedSize - 1 ELSE e
               E == Min(requested, Min(s + 2097152 - 1, servedSize - 1))
           IN  /\ streamResp.headers.contentRange = <<s, E, servedSize>>
               /\ streamResp.headers.contentLength = E - s + 1
               /\ E <= servedSize - 1
               /\ E <= s + 2097152 - 1

\* "bytes=1-" on a video of more than 2 MiB + 1 bytes was answered with the
\* 2 MiB that start at byte 1
C15_Witness ==
    /\ streamResp.status = 206
    /\ streamReq.range = RangeText(1, NaN)
    /\ streamResp.headers.contentRange = <<1, 2097152, servedSize>>
    /\ streamResp.headers.contentLength = 2097152
    /\ servedSize - 1 > 2097152
    /\ streamReq.route = "direct" => streamResp.ended

\* C16 as claimed: a Range header with a start that is no number, with
\* start > end or with start >= totalSize is answered 400 with a JSON body,
\* and the numbers of every 206 response satisfy 0 <= start <= end <
\* totalSize, its Content-Length being positive.
C16_BadRangeRejected ==
    /\ streamResp.status = 206 =>
         LET cr == streamResp.headers.contentRange
         IN  /\ cr[1] # NaN /\ cr[2] # NaN
             /\ 0 <= cr[1] /\ cr[1] <= cr[2] /\ cr[2] < cr[3]
             /\ streamResp.headers.contentLength # NaN
             /\ streamResp.headers.contentLength > 0
    /\ (/\ streamReq.route = "stream"
        /\ hasRange(streamReq)
        /\ streamResp.status # 0
        /\ streamReq.id \in DOMAIN sessions
        /\ sessions[streamReq.id].isComplete
        /\ streamResp.status # 500
        /\ LET start == rangeStart(streamReq.range)
               end == rangeEnd(streamReq.range, servedSize)
           IN  start = NaN \/ end = NaN \/ start > end \/ start >= servedSize)
         => streamResp.status = 400 /\ streamResp.json

\* C17 as claimed: when GET /stream has answered a range of a complete video
\* with 206, the body it wrote is the bytes start..end of the video, end
\* being the clamped end, in order: as many bytes as Content-Length says.
C17_BodyIsRange ==
    (/\ streamReq.route = "stream"
     /\ streamResp.status = 206
     /\ \E s \in Offsets, e \in Offsets \cup {NaN} :
          /\ streamReq.range = RangeText(s, e)
          /\ s < servedSize
          /\ e # NaN => s <= e)
      => /\ isRun(streamResp.body, streamResp.headers.contentRange[1],
                  streamResp.headers.contentRange[2])
         /\ bytesIn(streamResp.body) = streamResp.headers.contentLength
         /\ streamResp.ended

\* C18 as claimed: the bytes GET /stream has written to a range response are
\* never more than the Content-Length it advertised, and they come in
\* ascending order.
C18_WrittenWithinLength ==
    (streamReq.route = "stream" /\ streamResp.status = 206)
      => /\ streamResp.headers.contentLength # NaN
         /\ bytesIn(streamResp.body) <= streamResp.headers.contentLength
         /\ \A i \in 1..(Len(streamResp.body) - 1) :
              streamResp.body[i].to < streamResp.body[i + 1].from

\* C19: every POST /upload request ends with exactly one JSON response: 400
\* MISSING_VIDEO_FILE when no file was sent, 200 with the result of
\* uploadVideoInChunks when it returned, 500 UPLOAD_FAILED when it threw;
\* nothing is answered before the handler ends.
C19_OneJsonResponse ==
    entryVia = "route" =>
        /\ entryPc # "done" => entryResp = NoAnswer
        /\ entryPc = "done" =>
            /\ entryResp.sent = 1
            /\ ~entryFile.buffer =>
                /\ entryResp.status = 400
                /\ entryResp.error = "MISSING_VIDEO_FILE"
            /\ (entryFile.buffer /\ result.type = "ok") =>
                /\ entryResp.status = 200
                /\ entryResp.data = result
            /\ (entryFile.buffer /\ result.type # "ok") =>
                /\ result.type = "error"
                /\ entryResp.status = 500
                /\ entryResp.error = "UPLOAD_FAILED"

\* the coordinator failed after the upload was created, and the route
\* answered
C19_Witness ==
    /\ entryVia = "route"
    /\ entryPc = "done"
    /\ result.type = "error"
    /\ uploadId # NULL
    /\ entryResp.status = 500

\* C20: a file that is missing, of a type that is not allowed or larger than
\* its limit is rejected at once, on every entry point: no
\* CreateMultipartUpload and no PutObject is sent and no session is saved.
C20_InvalidFileRejected ==
    (entryVia # "none" /\ validateFile(entryFile) # {}) =>
        /\ entryPc = "done"
        /\ entryResp.status = 400 \/ entryResp.error = "Failed to upload file"
        /\ cur = 0
        /\ entryPuts = 0
        /\ sessions = << >>

\* C21: a streaming request whose backing object is not in the object store
\* (the HeadObject fails as not found) is answered with 404, never with
\* 200, 206 or 500.
C21_MissingObjectNotFound ==
    [][(streamPc = "head" /\ streamObj = Undefined /\ streamPc' = "closed")
         => streamResp'.status = 404]_vars

\* uploadFileToS3 has decided where the file goes: it is not waiting for
\* the processing of an image
dispatched == entryPc \notin {"metadata", "toBuffer"}

\* C22 as stated: uploadFileToS3 hands every file larger than the chunking
\* threshold to uploadVideoInChunks, whatever its content type, and sends
\* every smaller file in one PutObject.
C22_RoutedBySize ==
    (entryVia = "uploadFileToS3" /\ entryFile.buffer /\ dispatched) =>
        /\ entryFile.size > CHUNK_THRESHOLD => (cur = 1 /\ entryPuts = 0)
        /\ entryFile.size < CHUNK_THRESHOLD => (cur = 0 /\ entryPuts = 1)

\* C22: uploadFileToS3 hands every file validateFile accepts that is larger
\* than the chunking threshold to uploadVideoInChunks, whatever its content
\* type, and sends every accepted file up to the threshold in one PutObject
\* (an image after its processing has ended, well or not); a file
\* validateFile rejects reaches neither.
C22_AcceptedRoutedBySize ==
    entryVia = "uploadFileToS3" =>
        IF validateFile(entryFile) # {}
        THEN cur = 0 /\ entryPuts = 0
        ELSE IF ~dispatched
        THEN cur = 0 /\ entryPuts = 0
        ELSE /\ entryFile.size > CHUNK_THRESHOLD => (cur = 1 /\ entryPuts = 0)
             /\ entryFile.size <= CHUNK_THRESHOLD => (cur = 0 /\ entryPuts = 1)

\* a large file whose content type is no video type went through the
\* coordinator
C22_Witness ==
    /\ entryVia = "uploadFileToS3"
    /\ entryFile.size > CHUNK_THRESHOLD
    /\ entryFile.mimetype = "application/octet-stream"
    /\ entryFile.ext = ".txt"
    /\ cur = 1
    /\ entryPc = "done"
    /\ result.type = "ok"

\* C23: after a successful upload the duration of the saved session is the
\* duration returned to the caller.
C23_DurationSaved ==
    (pc = "done" /\ result.type = "ok" /\ result.videoId \in DOMAIN sessions)
        => sessions[result.videoId].duration = result.duration

\* C24: the duration is extracted only after the session was saved as
\* complete, and the extraction cannot fail the upload: whatever it does,
\* the upload returns success with the session, unless deleted meanwhile,
\* complete, with duration 0 when the extraction failed.
C24_ExtractionBestEffort ==
    /\ [](pc = "extract" =>
            /\ mpu[uploadId] = "completed"
            /\ chunkedVideo.isComplete
            /\ chunkedVideo.videoId \in DOMAIN sessions
                 => sessions[chunkedVideo.videoId].isComplete)
    /\ [][pc = "extract" =>
            /\ pc' \in {"extract", "done"}
            /\ pc' = "done" =>
                /\ result'.type = "ok"
                /\ result'.videoId = chunkedVideo.videoId
                /\ result'.duration \in Durations \cup {0}
                /\ UNCHANGED storeVars]_vars

\* an upload whose extraction failed returned success with duration 0
C24_Witness ==
    /\ pc = "done"
    /\ result.type = "ok"
    /\ result.duration = 0
    /\ result.videoId \in DOMAIN sessions
    /\ sessions[result.videoId].isComplete

\* C25 as claimed: extractVideoMetadata never fails outward: whatever the
\* buffer (empty, truncated, no Buffer at all) and the mimetype and file
\* name, no stage throws past it and what it returns has a duration that is
\* a non-negative integer.
C25_NeverFailsOutward ==
    /\ ~metaOut.thrown
    /\ metaOut.duration \in Nat
    /\ metaPc = "done" => metaOut.extractionMethod # "none"

\* an mvhd atom the size in front of which is at least 108 and at most the
\* rest of the buffer, of version 0 or 1, with a time scale and a duration
\* that are not 0
wellFormed(box) ==
    /\ box.present
    /\ box.atomSize = 108
    /\ box.version \in {0, 1}
    /\ box.timeScale # 0
    /\ box.durationLow # 0

\* C26: for a buffer that holds a well-formed mvhd atom the duration returned
\* is round(duration / timeScale), of the low word of the duration for
\* version 1.
C26_MvhdDuration ==
    (metaPc = "done" /\ wellFormed(metaIn.box)) =>
        metaOut.duration = round(metaIn.box.durationLow, metaIn.box.timeScale)

\* bytes per second of the bitrates: 3 Mbps, 2 Mbps for WebM, 4 Mbps for AVI
bytesPerSecond(mimetype) ==
    IF mimetype = "video/webm" THEN 250000
    ELSE IF mimetype = "video/avi" THEN 500000
    ELSE 375000

\* t is size / rate rounded to the nearest integer, halves upwards
isRounded(t, size, rate) ==
    /\ 2 * (size - t * rate) >= 0 - rate
    /\ 2 * (size - t * rate) < rate

\* C27 as claimed: when no parsing stage gave a positive duration, the
\* duration returned is round(size * 8 / bitrate) of the declared size, not
\* below 1 and not above 7200, with 3 Mbps for MP4 and MOV, 2 Mbps for WebM
\* and 4 Mbps for AVI (and 3 Mbps for every other type); 6,000,000 bytes of
\* video/mp4 give 16.
C27_SizeEstimate ==
    (/\ metaPc = "done"
     /\ ~metaOut.thrown
     /\ metaOut.extractionMethod \notin
          {"mp4_parsing", "webm_parsing", "error_fallback"}) =>
        LET size == metaIn.fileInfo.size
            rate == bytesPerSecond(metaIn.fileInfo.mimetype)
        IN  /\ metaOut.extractionMethod = "size_estimation"
            /\ \E t \in {size \div rate, size \div rate + 1} :
                 /\ isRounded(t, size, rate)
                 /\ t < 1 => metaOut.duration = 1
                 /\ t > 7200 => metaOut.duration = 7200
                 /\ t \in 1..7200 => metaOut.duration = t
            /\ (size = 6000000 /\ metaIn.fileInfo.mimetype = "video/mp4")
                 => metaOut.duration = 16

\* C28: for a buffer of length 0 with the size 0 the duration returned is the
\* default of 180 seconds.
C28_ZeroLengthDefault ==
    (/\ metaPc = "done"
     /\ metaIn.videoBuffer = Buffer(<< >>)
     /\ metaIn.fileInfo.size = 0) =>
        metaOut.duration = 180

\* the uploadPart calls that have not resolved: a request is out, or the
\* backoff runs
pending(p) == {pn \in DOMAIN p : p[pn].st \in {"inflight", "waiting"}}

\* the 0-based number of the batch of a part
batchNumber(pn) == (pn - 1) \div concurrencyLimit

\* C29: the batches of an upload are sequential and bounded: a part of a
\* batch is dispatched only when every part of the batches before it has
\* been uploaded, retries included, and at most concurrencyLimit (3)
\* uploadPart calls are pending at any moment.
C29_BatchesSequential ==
    /\ Cardinality(pending(part)) <= concurrencyLimit
    /\ \A pn, q \in DOMAIN part :
         (part[pn].st # "none" /\ batchNumber(q) < batchNumber(pn))
            => part[q].st = "ok"
    /\ \A pn, q \in pending(part) : batchNumber(pn) = batchNumber(q)

\* the second batch is running after the first was uploaded
C29_Witness ==
    \E pn \in DOMAIN part :
        /\ pn > concurrencyLimit
        /\ part[pn].st = "inflight"
        /\ \A q \in 1..concurrencyLimit : part[q].st = "ok"

\* C30: uploadPart sends at most MAX_RETRIES (3) UploadPart requests for a
\* part; after failed attempt number n < 3 it waits
\* RETRY_DELAY_BASE * 2^(n - 1) ms (1000, then 2000) before the next; it
\* returns on the first success and sends nothing more; when the third
\* attempt fails it throws at once, without a wait.
C30_RetriesWithBackoff ==
    /\ [](\A pn \in DOMAIN part :
            /\ part[pn].retries \in 0..MAX_RETRIES
            /\ part[pn].st = "none" => part[pn].retries = 0
            /\ part[pn].st \in {"inflight", "ok"}
                 => part[pn].retries + 1 <= MAX_RETRIES
            /\ part[pn].st = "failed" => part[pn].retries = MAX_RETRIES
            /\ part[pn].st = "waiting" =>
                 /\ part[pn].retries \in 1..(MAX_RETRIES - 1)
                 /\ part[pn].retries = 1 => part[pn].delay = 1000
                 /\ part[pn].retries = 2 => part[pn].delay = 2000)
    /\ [][cur' = cur =>
            \A pn \in DOMAIN part :
                /\ part[pn].st \in {"ok", "failed"} => part'[pn] = part[pn]
                /\ (part[pn].st = "inflight" /\ part'[pn].st = "waiting")
                     => /\ part'[pn].retries = part[pn].retries + 1
                        /\ part'[pn].delay =
                             RETRY_DELAY_BASE * Pow2(part[pn].retries)
                /\ (part[pn].st = "inflight" /\ part'[pn].st = "failed")
                     => part[pn].retries + 1 = MAX_RETRIES
                /\ (part[pn].st = "inflight" /\ part'[pn].st = "ok")
                     => part'[pn].retries = part[pn].retries
                /\ (part[pn].st = "waiting" /\ part'[pn] # part[pn])
                     => part'[pn] = [part[pn] EXCEPT !.st = "inflight"]]_vars

\* a part waits 2000 ms after its second failed attempt
C30_Witness ==
    \E pn \in DOMAIN part :
        /\ part[pn].st = "waiting"
        /\ part[pn].retries = 2
        /\ part[pn].delay = 2000

\* the duration of the first stage that gives a positive one, in the order
\* MP4 atom scan, WebM scan for a WebM hint, estimate from the size, default;
\* mp4First says for which file information the MP4 atom scan is a stage
firstPositive(input, mp4First) ==
    LET mp4 == IF mp4First THEN extractVideoDuration(input.videoBuffer) ELSE 0
        webm == IF isWebm(input.fileInfo)
                THEN extractWebMDuration(input.videoBuffer) ELSE 0
        estimate == estimateDurationFromSize(input.fileInfo.size,
                                             input.fileInfo.mimetype)
    IN  IF mp4 > 0 THEN mp4
        ELSE IF webm > 0 THEN webm
        ELSE IF estimate > 0 THEN estimate
        ELSE 180

\* C31: the duration returned is that of the first stage, in the order MP4
\* atom scan, WebM scan (only for a WebM hint), size estimate, default, that
\* gives a positive duration, the MP4 atom scan being the first stage for
\* every input (with a file name that is a string).
C31_FirstPositiveStage ==
    (/\ metaPc = "done"
     /\ ~metaIn.fileInfo.isNull
     /\ metaIn.fileInfo.ext # NotAString) =>
        metaOut.duration = firstPositive(metaIn, TRUE)

\* how far a streaming request is: not arrived, awaiting the store, headers
\* written and the body being copied chunk by chunk, over
streamStage(at) ==
    CASE at = "idle" -> 0
      [] at = "head" -> 1
      [] at = "get" -> 2
      [] at = "body" -> 3
      [] OTHER -> 4

\* C32: a streaming request only moves forward (while the body is copied,
\* every step writes more of it); the status and the headers are written at
\* most once and a failure after them produces no second
\* status or JSON error; and every request that arrived is eventually
\* closed, its response ended.
C32_ForwardToClosed ==
    /\ [][/\ \/ streamStage(streamPc') > streamStage(streamPc)
             \/ /\ streamPc = "body" /\ streamPc' = "body"
                /\ bytesIn(streamResp'.body) > bytesIn(streamResp.body)
          /\ streamResp.status # 0 =>
               /\ streamResp'.status = streamResp.status
               /\ streamResp'.json = streamResp.json
               /\ streamResp'.headers = streamResp.headers]_vars
    /\ [](streamPc # "idle" => <>streamResp.ended)

\* C33: once GET /stream has sent the headers, a read error on a chunk does
\* not abort the response: what could be read of the chunks that overlap
\* the request is written in order, no more than the Content-Length, and
\* the response is then ended.
C33_ChunkErrorSkipped ==
    (streamReq.route = "stream" /\ streamResp.status \in {200, 206}) =>
        /\ streamResp.ended
        /\ streamPc = "closed"
        /\ \A i \in 1..(Len(streamResp.body) - 1) :
             streamResp.body[i].to < streamResp.body[i + 1].from

\* C34: when a session was cancelled while its coordinator was running, the
\* work of the coordinator is discarded: the upload of that videoId is
\* never completed in the object store and no complete session of it
\* exists.
C34_CancelledWorkDiscarded ==
    \A vid \in VideoIds :
        cancelResp = Response(vid, 200) =>
            /\ mpu[vid] # "completed"
            /\ vid \in DOMAIN sessions => ~sessions[vid].isComplete

\* the invocation of uploadVideoInChunks that created the upload uid is
\* still running
running(uid) == pc \notin {"idle", "done"} /\ uploadId = uid

\* C35: a session is never acted on by two owners at once: a sweep of the
\* janitor never aborts the multipart upload or deletes the session of an
\* upload whose coordinator is still running.
C35_SingleOwner ==
    [][(/\ sweepPc \in {"abort", "delete"}
        /\ sweepPc' # sweepPc
        /\ mpu' # mpu \/ sessions' # sessions)
         => ~running(sweepQueue[1].uploadId)]_vars

\* C36: every multipart upload is recoverable: from the moment
\* CreateMultipartUpload has succeeded, a session that holds its uploadId
\* exists, or the upload has been completed or aborted.
C36_OpenUploadHasSession ==
    \A uid \in VideoIds :
        mpu[uid] = "open" =>
            \E vid \in DOMAIN sessions : sessions[vid].uploadId = uid

\* the failure path of the coordinator has sent AbortMultipartUpload for uid
abortIssued(uid) ==
    \E call \in aborts : call.by = "coordinator" /\ call.uploadId = uid

\* C37: within one invocation no UploadPart request, first attempt or
\* retry, is sent for an upload after the failure path of the coordinator
\* has sent AbortMultipartUpload for it.
C37_NoPartAfterAbort ==
    [][abortIssued(uploadId) =>
         \A pn \in DOMAIN part :
            (pn \in DOMAIN part' /\ part'[pn].st = "inflight")
               => part[pn].st = "inflight"]_vars

\* C38: whenever uploadVideoInChunks reports a failure to its caller, the
\* multipart upload was not completed in the object store: no run has the
\* CompleteMultipartUpload succeed and the caller receive the error, with
\* the session incomplete and an abort sent for the completed uploadId.
C38_FailureMeansNotCompleted ==
    (result.type = "error" /\ uploadId # NULL) =>
        mpu[uploadId] # "completed"

\* the UploadPart requests that were sent for the parts p: one for every
\* failure, and one more for a part that is in flight or uploaded
RECURSIVE allAttempts(_)
allAttempts(p) ==
    IF p = << >> THEN 0
    ELSE allAttempts(SubSeq(p, 1, Len(p) - 1)) + p[Len(p)].retries
           + (IF p[Len(p)].st \in {"inflight", "ok"} THEN 1 ELSE 0)

\* how far an invocation is: each await of uploadVideoInChunks in turn
stage(at) ==
    CASE at = "idle" -> 0
      [] at = "create" -> 1
      [] at = "save1" -> 2
      [] at = "batch" -> 3
      [] at = "complete" -> 4
      [] at = "save2" -> 5
      [] at = "extract" -> 6
      [] at = "abort" -> 7
      [] OTHER -> 8

\* what the uploadPart calls have done so far: every request sent and every
\* answer received adds to it
RECURSIVE progress(_)
progress(p) ==
    IF p = << >> THEN 0
    ELSE progress(SubSeq(p, 1, Len(p) - 1)) + 2 * p[Len(p)].retries
           + (CASE p[Len(p)].st = "inflight" -> 1
                [] p[Len(p)].st = "ok" -> 2
                [] OTHER -> 0)

\* C39: when every call to the stores returns, every invocation of
\* uploadVideoInChunks ends, with a result or an error, after at most
\* MAX_RETRIES UploadPart requests for each of its ceil(S/C) parts and at
\* most one CreateMultipartUpload, one CompleteMultipartUpload and one
\* AbortMultipartUpload: while the invocation waits for a batch, a request
\* or a backoff timer of that batch is pending (at every other await one
\* call is); every answer moves the invocation to a later await or adds to
\* the bounded work of its parts, never back to an earlier await.
C39_TerminatesBounded ==
    /\ [](/\ allAttempts(part) <=
               totalChunks(fileSize, chunkSize) * MAX_RETRIES
          /\ progress(part) <=
               2 * totalChunks(fileSize, chunkSize) * MAX_RETRIES
          /\ Len(completeCalls) <= 1
          /\ Cardinality({call \in aborts : /\ call.by = "coordinator"
                                            /\ call.uploadId = uploadId}) <= 1
          /\ pc = "batch" =>
               \E pn \in batchOf(batchI, totalChunks(fileSize, chunkSize)) :
                  pn \in pending(part)
          /\ pc = "done" => result.type \in {"ok", "error"})
    /\ [][cur' = cur =>
           \/ stage(pc') > stage(pc)
           \/ stage(pc') = stage(pc) /\ progress(part') > progress(part)]_vars

\* an invocation for two parts ended with an error after every part had
\* failed MAX_RETRIES times, and its abort was sent
C39_Witness ==
    /\ pc = "done"
    /\ result.type = "error"
    /\ totalChunks(fileSize, chunkSize) >= 2
    /\ allAttempts(part) = totalChunks(fileSize, chunkSize) * MAX_RETRIES
    /\ abortIssued(uploadId)

==============================================================================
